---- MODULE Spec2Model ----
(***************************************************************************)
(* Rscoop background automation: the interval scheduler and the update     *)
(* orchestrator of src-tauri/src/scheduler.rs.                             *)
(*                                                                         *)
(* Strings whose characters matter (the interval setting) are sequences    *)
(* of one-character strings, so that prefix tests, slicing and decimal     *)
(* parsing are computed character by character as the code does.           *)
(***************************************************************************)
EXTENDS Integers, Sequences, FiniteSets, TLC

(***************************************************************************)
(* Bounds of the model.                                                    *)
(***************************************************************************)
\* longest generated interval string (all strings over Alphabet up to it)
MaxLen == 2

\* loop iterations of the scheduler that are explored
MaxIter == 3

\* seconds the clock may advance outside the scheduler's own sleeps
MaxTicks == 1

\* changes of the settings made by the user while the scheduler runs
MaxChanges == 1

\* buckets configured (length of the result list of update_all_buckets)
MaxBuckets == 3

\* detail lines returned by update_all_packages_headless
MaxPkgLines == 1

\* detail lines returned by update_all_packages_headless, in PkgSpec
MaxLines == 2

\* commands of commands/debug.rs run one after another
MaxOps == 2

\* removal attempts that fail on a file before its holder lets go of it
MaxHold == 2

\* commands of the package operations invoked in a behaviour
MaxCalls == 3

\* the clock (epoch seconds) when the process starts
StartEpoch == 100000

(***************************************************************************)
(* Option<u64>                                                             *)
(***************************************************************************)
None == [some |-> FALSE, val |-> 0]

Some(v) == [some |-> TRUE, val |-> v]

(***************************************************************************)
(* str::parse::<u64>() : optional '+', then one or more ASCII digits,      *)
(* Err on empty input, on any other character and on overflow of u64.      *)
(***************************************************************************)
Digits == {"0", "1", "2", "3", "4", "5", "6", "7", "8", "9"}

DigitVal(c) ==
    CASE c = "0" -> 0 [] c = "1" -> 1 [] c = "2" -> 2 [] c = "3" -> 3
      [] c = "4" -> 4 [] c = "5" -> 5 [] c = "6" -> 6 [] c = "7" -> 7
      [] c = "8" -> 8 [] c = "9" -> 9

\* u64::MAX = 18446744073709551615, as its decimal digits
U64MaxDigits ==
    <<1, 8, 4, 4, 6, 7, 4, 4, 0, 7, 3, 7, 0, 9, 5, 5, 1, 6, 1, 5>>

RECURSIVE StripZeros(_)
StripZeros(ds) ==
    IF ds # <<>> /\ Head(ds) = "0" THEN StripZeros(Tail(ds)) ELSE ds

RECURSIVE DigitsGreater(_, _)
\* ds (digit characters) > ms (digit values), both of the same length
DigitsGreater(ds, ms) ==
    IF ds = <<>> THEN FALSE
    ELSE IF DigitVal(Head(ds)) # Head(ms) THEN DigitVal(Head(ds)) > Head(ms)
    ELSE DigitsGreater(Tail(ds), Tail(ms))

\* the checked multiply-and-add of the digit loop fails: the value exceeds u64::MAX
PosOverflow(ds) ==
    LET sig == StripZeros(ds) IN
    \/ Len(sig) > Len(U64MaxDigits)
    \/ Len(sig) = Len(U64MaxDigits) /\ DigitsGreater(sig, U64MaxDigits)

RECURSIVE Accumulate(_, _)
\* result = result * 10 + digit, left to right
Accumulate(acc, ds) ==
    IF ds = <<>> THEN acc
    ELSE Accumulate(acc * 10 + DigitVal(Head(ds)), Tail(ds))

parse_u64(s) ==
    IF s = <<>> THEN None
    ELSE IF Head(s) \in {"+", "-"} /\ Len(s) = 1 THEN None
    ELSE LET ds == IF Head(s) = "+" THEN Tail(s) ELSE s IN
         IF \E i \in 1..Len(ds) : ds[i] \notin Digits THEN None
         ELSE IF PosOverflow(ds) THEN None
         ELSE Some(Accumulate(0, StripZeros(ds)))

(***************************************************************************)
(* parse_interval (scheduler.rs:9-19)                                      *)
(***************************************************************************)
CustomPrefix == <<"c", "u", "s", "t", "o", "m", ":">>

starts_with(s, p) == Len(s) >= Len(p) /\ SubSeq(s, 1, Len(p)) = p

\* custom[7..]
SliceFrom7(s) == SubSeq(s, Len(CustomPrefix) + 1, Len(s))

parse_interval_swapped(val) ==
    IF val \in {<<"2", "4", "h">>, <<"1", "d">>} THEN Some(86400)
    ELSE IF val \in {<<"7", "d">>, <<"1", "w">>} THEN Some(604800)
    ELSE IF val = <<"1", "h">> THEN Some(21600)
    ELSE IF val = <<"6", "h">> THEN Some(3600)
    ELSE IF val = <<"o", "f", "f">> THEN None
    ELSE IF starts_with(val, CustomPrefix) THEN parse_u64(SliceFrom7(val))
    ELSE parse_u64(val)

parse_interval(val) ==
    IF val \in {<<"2", "4", "h">>, <<"1", "d">>} THEN Some(86400)
    ELSE IF val \in {<<"7", "d">>, <<"1", "w">>} THEN Some(604800)
    ELSE IF val = <<"1", "h">> THEN Some(3600)
    ELSE IF val = <<"6", "h">> THEN Some(21600)
    ELSE IF val = <<"o", "f", "f">> THEN None
    ELSE IF starts_with(val, CustomPrefix) THEN parse_u64(SliceFrom7(val))
    ELSE parse_u64(val)

(***************************************************************************)
(* Settings storage (commands::settings, an external collaborator): JSON   *)
(* values under string keys.  get_config_value returns                     *)
(* Result<Option<Value>, String>; a missing key is Ok(None).               *)
(***************************************************************************)
JMissing == [t |-> "missing", s |-> <<>>, n |-> 0, b |-> FALSE]

JStr(x) == [t |-> "str", s |-> x, n |-> 0, b |-> FALSE]

JNum(x) == [t |-> "num", s |-> <<>>, n |-> x, b |-> FALSE]

JBool(x) == [t |-> "bool", s |-> <<>>, n |-> 0, b |-> x]

\* the store cannot be read for this key (get_config_value returns Err)
JErr == [t |-> "err", s |-> <<>>, n |-> 0, b |-> FALSE]

\* get_config_value(key): Err when the read fails, else Ok(stored value)
get_config_value(ok, stored) ==
    [ok |-> ok /\ stored.t # "err", val |-> stored]

Off == <<"o", "f", "f">>

\* .ok().flatten().and_then(|v| v.as_str()...).unwrap_or_else(|| "off")   (23-30)
interval_raw_of(res) ==
    IF res.ok /\ res.val.t = "str" THEN res.val.s ELSE Off

\* .ok().flatten() ... .and_then(|v| v.as_u64()).unwrap_or(0)              (42-50)
last_ts_of(res) ==
    IF res.ok /\ res.val.t = "num" /\ res.val.n >= 0 THEN res.val.n ELSE 0

flag_of_default_true(res) ==
    IF res.ok /\ res.val.t = "bool" THEN res.val.b ELSE TRUE

\* .ok().flatten().and_then(|v| v.as_bool()).unwrap_or(false)      (64-71, 170-177)
flag_of(res) ==
    IF res.ok /\ res.val.t = "bool" THEN res.val.b ELSE FALSE

\* u64::saturating_sub
saturating_sub(a, b) == IF a >= b THEN a - b ELSE 0

Min(a, b) == IF a <= b THEN a ELSE b

\* Duration::from_secs(30)                                                  (36)
OffPollSecs == 30

\* .min(3600)                                                              (304)
MaxSleepSecs == 3600

\* elapsed                                                                  (53)
elapsed_of(last_ts, now_l, interval_secs) ==
    IF last_ts = 0 THEN interval_secs ELSE saturating_sub(now_l, last_ts)

is_due_strict(elapsed, interval_secs) == elapsed > interval_secs

\* if elapsed >= interval_secs                                              (59)
is_due(elapsed, interval_secs) == elapsed >= interval_secs

sleep_secs_uncapped(interval_secs, elapsed) ==
    saturating_sub(interval_secs, elapsed)

\* sleep_secs                                                              (304)
sleep_secs_of(interval_secs, elapsed) ==
    Min(saturating_sub(interval_secs, elapsed), MaxSleepSecs)

(***************************************************************************)
(* Update orchestrator, bucket stage (scheduler.rs:88-160).                *)
(* A formatted line is the sequence of its pieces; the marks U+2713 and    *)
(* U+2717 of the source are written (check) and (cross).                   *)
(***************************************************************************)
BucketNames == <<"A", "B", "C", "D", "E">>

\* one BucketUpdateResult of update_all_buckets
Result(i, ok) ==
    [bucket_name |-> BucketNames[i], success |-> ok,
     message |-> IF ok THEN "ok" ELSE "timeout"]

\* results.iter().filter(|r| r.success).count()                             (90)
RECURSIVE count_successes(_)
count_successes(results) ==
    IF results = <<>> THEN 0
    ELSE (IF Head(results).success THEN 1 ELSE 0) + count_successes(Tail(results))

\* the detail / output line of one result                    (100-104, 135-139)
detail_line(r) ==
    IF r.success THEN <<"(check) Updated bucket: ", r.bucket_name>>
    ELSE <<"(cross) Failed to update ", r.bucket_name, ": ", r.message>>

\* update_details                                                       (98-106)
update_details(results) == [i \in 1..Len(results) |-> detail_line(results[i])]

operation_result_no_partial(successes, total) ==
    IF successes > 0 THEN "success" ELSE "failed"

\* operation_result                                                    (109-115)
operation_result(successes, total) ==
    IF successes = total THEN "success"
    ELSE IF successes > 0 THEN "partial"
    ELSE "failed"

\* bucket_log_entry (timestamp left out)                               (117-124)
bucket_log_entry(results) ==
    [operation_type   |-> "bucket",
     operation_result |-> operation_result(count_successes(results), Len(results)),
     success_count    |-> count_successes(results),
     total_count      |-> Len(results),
     details          |-> update_details(results)]

(***************************************************************************)
(* Events emitted to the main window.                                      *)
(***************************************************************************)
Event(name, line, source, success, n, m) ==
    [name |-> name, line |-> line, source |-> source, success |-> success,
     n |-> n, m |-> m]

\* window.emit("auto-operation-start", ..) and the first output line (76-80, 187-191)
start_events(what) ==
    << Event("auto-operation-start", <<"Updating ", what, "s...">>, "", FALSE, 0, 0),
       Event("operation-output", <<"Starting automatic ", what, " update...">>,
             "stdout", FALSE, 0, 0) >>

\* every result line tagged stdout
bucket_result_events_all_stdout(results) ==
    [i \in 1..Len(results) |->
        Event("operation-output", detail_line(results[i]), "stdout", FALSE, 0, 0)]
    \o << Event("operation-finished", <<"Bucket update completed">>, "",
                count_successes(results) = Len(results),
                count_successes(results), Len(results)) >>

\* one operation-output per result, then operation-finished            (134-148)
bucket_result_events(results) ==
    [i \in 1..Len(results) |->
        Event("operation-output", detail_line(results[i]),
              IF results[i].success THEN "stdout" ELSE "stderr", FALSE, 0, 0)]
    \o << Event("operation-finished", <<"Bucket update completed">>, "",
                count_successes(results) = Len(results),
                count_successes(results), Len(results)) >>

\* a failure branch that shows the error and leaves the operation open
failure_events_output_only(what, e) ==
    << Event("operation-output", <<"Error: ", e>>, "stderr", FALSE, 0, 0) >>

\* the failure branch of a stage                            (280-287, 244-251)
failure_events(what, e) ==
    << Event("operation-output", <<"Error: ", e>>, "stderr", FALSE, 0, 0),
       Event("operation-finished", <<what, " update failed: ", e>>, "", FALSE, 0, 0) >>

(***************************************************************************)
(* Update orchestrator, package stage (scheduler.rs:179-271).              *)
(***************************************************************************)
contains(line, marker) == \E i \in 1..Len(line) : line[i] = marker

\* every line with "Updated" counted, also one that says "up to date"
RECURSIVE count_updated_any(_)
count_updated_any(lines) ==
    IF lines = <<>> THEN 0
    ELSE (IF contains(Head(lines), "Updated") THEN 1 ELSE 0)
         + count_updated_any(Tail(lines))

\* .filter(|line| line.contains("Updated") && !line.contains("up to date")) (216-218)
RECURSIVE count_updated(_)
count_updated(lines) ==
    IF lines = <<>> THEN 0
    ELSE (IF contains(Head(lines), "Updated") /\ ~contains(Head(lines), "up to date")
          THEN 1 ELSE 0) + count_updated(Tail(lines))

\* total_count taken from the list as it is, success_count still raised to 1
package_log_entry_raw_total(lines) ==
    [operation_type   |-> "package",
     operation_result |-> "success",
     success_count    |-> IF count_updated(lines) = 0 THEN 1 ELSE count_updated(lines),
     total_count      |-> Len(lines),
     details          |-> lines]

\* package_log_entry                                                   (222-229)
package_log_entry(lines) ==
    [operation_type   |-> "package",
     operation_result |-> "success",
     success_count    |-> IF count_updated(lines) = 0 THEN 1 ELSE count_updated(lines),
     total_count      |-> IF Len(lines) = 0 THEN 1 ELSE Len(lines),
     details          |-> lines]

\* the error entry counted like an empty run: 0 of 0, no detail line
error_log_entry_empty(e) ==
    [operation_type   |-> "package",
     operation_result |-> "failed",
     success_count    |-> 0,
     total_count      |-> 0,
     details          |-> <<>>]

\* error_log_entry                                                     (257-264)
error_log_entry(e) ==
    [operation_type   |-> "package",
     operation_result |-> "failed",
     success_count    |-> 0,
     total_count      |-> 1,
     details          |-> << <<"Error: ", e>> >>]

\* the output lines and the finished event of a successful package stage (202-211)
package_result_events(lines) ==
    [i \in 1..Len(lines) |->
        Event("operation-output", lines[i], "stdout", FALSE, 0, 0)]
    \o << Event("operation-finished",
                <<"Automatic package update completed successfully">>, "",
                TRUE, 0, 0) >>

(***************************************************************************)
(* State.                                                                  *)
(***************************************************************************)
VARIABLES
    now,                 \* SystemTime::now(), epoch seconds
    cfgInterval,         \* settings: buckets.autoUpdateInterval
    cfgLastTs,           \* settings: buckets.lastAutoUpdateTs
    cfgSilent,           \* settings: buckets.silentUpdateEnabled
    cfgChain,            \* settings: buckets.autoUpdatePackagesEnabled
    window,              \* app.get_webview_window("main") is Some
    loops,               \* scheduler tasks spawned by start_background_tasks
    pc,                  \* where the scheduler task is
    wake,                \* deadline of the pending tokio::time::sleep
    run_started_at,      \* local of the current run                       (61)
    silent_auto_update,  \* local of the current run                       (64)
    cfg_at_start,        \* the silent and chain settings as the current run began
    inflight,            \* calls of the orchestrator that have not returned
    events,              \* events emitted to the window by the current run
    submitted,           \* entries passed to add_log_entry_if_enabled by the current run
    decision,            \* locals of the latest iteration at its branch
    ts_writes,           \* set_config_value(lastAutoUpdateTs) calls of the current run
    ts_write_ok,         \* the latest of them returned Ok
    failed,              \* a collaborator of the current run returned Err
    returned,            \* what update_all_buckets returned to the current run
    pkg_returned,        \* what update_all_packages_headless returned to it
    prev_fail,           \* the latest finished run, if a collaborator of it failed
    iter, ticks, changes,
    pin, pres, ppc,      \* parse_interval applied to an input
    fs,                  \* the paths that exist on the disk
    locks,               \* per file: removal attempts that still fail (file held open)
    reg,                 \* the registry keys that exist
    dirs,                \* which of dirs::data_dir(), dirs::data_local_dir() are Some
    cmd,                 \* the latest command of commands/debug.rs that ran
    calls,               \* the file-system and registry calls it made, in order
    ret,                 \* what it returned
    ops,                 \* commands run so far
    installed_packages,  \* AppState: the Installed-Package Cache slot
    guards,              \* the tasks that hold a guard of its mutex
    inventory,           \* the packages installed on the disk
    task,                \* per command: where its task is, its locals, its result
    issued,              \* the cleanup commands handed to the shell, in order
    ncalls               \* commands invoked so far

cfgVars == <<cfgInterval, cfgLastTs, cfgSilent, cfgChain>>

runVars == <<run_started_at, silent_auto_update, cfg_at_start, inflight, events, submitted,
             ts_writes, ts_write_ok, failed, returned, pkg_returned, prev_fail>>

parseVars == <<pin, pres, ppc>>

reclaimVars == <<fs, locks, reg, dirs, cmd, calls, ret, ops>>

cacheVars == <<installed_packages, guards, inventory, task, issued, ncalls>>

otherVars == <<parseVars, reclaimVars, cacheVars>>

schedVars == <<now, cfgInterval, cfgLastTs, cfgSilent, cfgChain, window, loops, pc,
               wake, run_started_at, silent_auto_update, cfg_at_start, inflight,
               events, submitted, decision, ts_writes, ts_write_ok, failed, returned,
               pkg_returned, prev_fail, iter, ticks, changes>>

vars == <<schedVars, parseVars, reclaimVars, cacheVars>>

(***************************************************************************)
(* Values the settings may hold.                                           *)
(***************************************************************************)
SixHours == <<"6", "h">>

Custom2 == CustomPrefix \o <<"2">>

IntervalSettings ==
    {JErr, JMissing, JNum(3600), JStr(Off), JStr(SixHours), JStr(Custom2)}

LastTsSettings ==
    {JMissing, JNum(0), JStr(<<"x">>), JNum(StartEpoch - 21700),
     JNum(StartEpoch - 21599), JNum(StartEpoch - 1)}

FlagSettings == {JBool(TRUE), JBool(FALSE), JErr, JMissing, JStr(<<"t">>)}

NoDecision ==
    [branch |-> "none", interval_secs |-> 0, last_ts |-> 0, now |-> 0,
     sleep_secs |-> 0, okT |-> TRUE]

NoFail == [valid |-> FALSE, start |-> 0, wrote |-> FALSE]

\* Result<Vec<..>, String> of a collaborator
Ok(x) == [ok |-> TRUE, results |-> x, err |-> ""]

Err(e) == [ok |-> FALSE, results |-> <<>>, err |-> e]

\* the collaborator has not returned yet
Pending == [ok |-> FALSE, results |-> <<>>, err |-> "pending"]

InitSched ==
    /\ now = StartEpoch
    /\ cfgInterval \in IntervalSettings
    /\ cfgLastTs \in LastTsSettings
    /\ cfgSilent \in FlagSettings
    /\ cfgChain \in FlagSettings
    /\ window \in BOOLEAN
    /\ loops = 0
    /\ pc = "Idle"
    /\ wake = 0
    /\ run_started_at = 0
    /\ silent_auto_update = FALSE
    /\ cfg_at_start = [silent |-> FALSE, chain |-> FALSE]
    /\ inflight = 0
    /\ events = <<>>
    /\ submitted = <<>>
    /\ decision = NoDecision
    /\ ts_writes = 0
    /\ ts_write_ok = FALSE
    /\ failed = FALSE
    /\ returned = Pending
    /\ pkg_returned = Pending
    /\ prev_fail = NoFail
    /\ iter = 0
    /\ ticks = 0
    /\ changes = 0

InitParseIdle == pin = <<>> /\ pres = None /\ ppc = "idle"

\* no command of commands/debug.rs has returned yet
NoReturn ==
    [ok |-> TRUE, err |-> "", value |-> FALSE, total_cleared |-> 0,
     failed_files |-> <<>>]

InitReclaimIdle ==
    /\ fs = {}
    /\ locks = <<>>
    /\ reg = {}
    /\ dirs = [data |-> TRUE, local |-> TRUE]
    /\ cmd = "none"
    /\ calls = <<>>
    /\ ret = NoReturn
    /\ ops = 0

\* the commands that read or invalidate the Installed-Package Cache, or clean up
Commands ==
    {"get_debug_info", "uninstall_package", "clear_package_cache",
     "cleanup_all_apps", "cleanup_outdated_cache"}

\* the task of a command that is not running: its argument, what it read
\* (cache_info or the installed packages), what the inventory query and the
\* operation under it returned, what it returned itself, and the calls it
\* has made so far, in the order it made them
IdleTask ==
    [pc |-> "idle", package_name |-> "", got |-> <<>>, query |-> Ok(<<>>),
     called |-> FALSE, op |-> Ok(<<>>), done |-> FALSE, ret |-> Ok(<<>>),
     steps |-> <<>>]

InitCacheIdle ==
    /\ installed_packages = None
    /\ guards = {}
    /\ inventory = <<>>
    /\ task = [t \in Commands |-> IdleTask]
    /\ issued = <<>>
    /\ ncalls = 0

Init == InitSched /\ InitParseIdle /\ InitReclaimIdle /\ InitCacheIdle

(***************************************************************************)
(* The scheduler task (start_background_tasks, scheduler.rs:6-310).        *)
(***************************************************************************)
\* tauri::async_runtime::spawn(async move { loop { .. } })                (6-7, 21)
spawn_loop ==
    /\ loops' = loops + 1
    /\ pc' = "ReadConfig"

\* The application's setup hook calls start_background_tasks once.
AppSetup ==
    /\ loops = 0
    /\ pc = "Idle"
    /\ spawn_loop
    /\ UNCHANGED <<now, cfgVars, window, wake, runVars, decision, iter, ticks,
                   changes, otherVars>>

\* commands::settings::set_config_value(key, value): Ok stores the value, Err
\* leaves the store as it was; the caller discards the Result (let _ =)
set_config_value(ok, stored, value) == IF ok THEN JNum(value) ELSE stored

persisted_ts_at_finish(started, current) == current

\* the value persisted under buckets.lastAutoUpdateTs                (166, 297)
persisted_ts(started, current) == started

\* the write left for the end of the run, after the package stage
persist_on_success_deferred(wOk) == UNCHANGED <<cfgLastTs, ts_writes, ts_write_ok>>

persist_on_success_twice(wOk) ==
    /\ cfgLastTs' = set_config_value(wOk, cfgLastTs, persisted_ts(run_started_at, now))
    /\ ts_writes' = ts_writes + 2
    /\ ts_write_ok' = wOk

\* let _ = set_config_value(.., json!(run_started_at)) after the results (162-167)
persist_on_success(wOk) ==
    /\ cfgLastTs' = set_config_value(wOk, cfgLastTs, persisted_ts(run_started_at, now))
    /\ ts_writes' = ts_writes + 1
    /\ ts_write_ok' = wOk

persist_on_failure_skipped(wOk) == UNCHANGED <<cfgLastTs, ts_writes, ts_write_ok>>

\* let _ = set_config_value(.., json!(run_started_at)) after the error  (293-298)
persist_on_failure(wOk) ==
    /\ cfgLastTs' = set_config_value(wOk, cfgLastTs, persisted_ts(run_started_at, now))
    /\ ts_writes' = ts_writes + 1
    /\ ts_write_ok' = wOk

\* the branch taken without an interval                                 (33-38)
OffBranch ==
    /\ pc' = "Sleep"
    /\ wake' = now + OffPollSecs
    /\ decision' = [NoDecision EXCEPT !.branch = "off", !.now = now,
                                      !.sleep_secs = OffPollSecs]
    /\ UNCHANGED runVars

\* a not-due branch that leaves the loop instead of sleeping
NotDueBranch_leaves_loop(interval_secs, last_ts, elapsed, okT) ==
    /\ pc' = "Stopped"
    /\ wake' = wake
    /\ decision' = [branch |-> "notdue", interval_secs |-> interval_secs,
                    last_ts |-> last_ts, now |-> now, sleep_secs |-> 0, okT |-> okT]
    /\ UNCHANGED runVars

\* the branch of elapsed < interval_secs                               (302-307)
NotDueBranch(interval_secs, last_ts, elapsed, okT) ==
    /\ pc' = "Sleep"
    /\ wake' = now + sleep_secs_of(interval_secs, elapsed)
    /\ decision' = [branch |-> "notdue", interval_secs |-> interval_secs,
                    last_ts |-> last_ts, now |-> now,
                    sleep_secs |-> sleep_secs_of(interval_secs, elapsed),
                    okT |-> okT]
    /\ UNCHANGED runVars

\* the orchestrator spawned on a task of its own instead of awaited
DueBranch_detached(interval_secs, last_ts, okT) ==
    /\ run_started_at' = now
    /\ inflight' = inflight + 1
    /\ pc' = "ReadConfig"
    /\ decision' = [branch |-> "due", interval_secs |-> interval_secs,
                    last_ts |-> last_ts, now |-> now, sleep_secs |-> 0,
                    okT |-> okT]
    /\ UNCHANGED <<wake, silent_auto_update, cfg_at_start, events, submitted, ts_writes,
                   ts_write_ok, failed, returned, pkg_returned, prev_fail>>

\* the branch of elapsed >= interval_secs, up to update_all_buckets(..).await (60-88)
DueBranch(interval_secs, last_ts, okT) ==
    LET silent == flag_of(get_config_value(TRUE, cfgSilent)) IN
    /\ run_started_at' = now
    /\ silent_auto_update' = silent
    /\ cfg_at_start' = [silent |-> flag_of(get_config_value(TRUE, cfgSilent)),
                        chain  |-> flag_of(get_config_value(TRUE, cfgChain))]
    /\ events' = IF ~silent /\ window THEN start_events("bucket") ELSE <<>>
    /\ submitted' = <<>>
    /\ ts_writes' = 0
    /\ ts_write_ok' = FALSE
    /\ failed' = FALSE
    /\ returned' = Pending
    /\ pkg_returned' = Pending
    /\ inflight' = inflight + 1
    /\ pc' = "BucketUpdate"
    /\ wake' = wake
    /\ decision' = [branch |-> "due", interval_secs |-> interval_secs,
                    last_ts |-> last_ts, now |-> now, sleep_secs |-> 0,
                    okT |-> okT]
    /\ UNCHANGED prev_fail

\* one pass of the loop body from the top to its first await  (21-88, 302-307);
\* okT: the read of buckets.lastAutoUpdateTs returned Ok
Iterate(okT) ==
    /\ pc = "ReadConfig"
    /\ iter < MaxIter
    /\ iter' = iter + 1
    /\ LET interval_raw == interval_raw_of(get_config_value(TRUE, cfgInterval))
           interval_secs_opt == parse_interval(interval_raw)
           interval_secs == interval_secs_opt.val
           last_ts == last_ts_of(get_config_value(okT, cfgLastTs))
           elapsed == elapsed_of(last_ts, now, interval_secs)
       IN  IF ~interval_secs_opt.some THEN OffBranch
           ELSE IF is_due(elapsed, interval_secs)
                THEN DueBranch(interval_secs, last_ts, okT)
                ELSE NotDueBranch(interval_secs, last_ts, elapsed, okT)
    /\ UNCHANGED <<now, cfgVars, window, loops, ticks, changes, otherVars>>

\* tokio::time::sleep(..).await returns once the deadline has passed     (36, 306)
Wake ==
    /\ pc = "Sleep"
    /\ now' = IF now < wake THEN wake ELSE now
    /\ pc' = "ReadConfig"
    /\ UNCHANGED <<cfgVars, window, loops, wake, runVars, decision, iter, ticks,
                   changes, otherVars>>

\* a collaborator's Err leaves the loop (as `?` or `break` would)
EndRun_stop_on_error(anyFailed, wrote) ==
    /\ pc' = IF anyFailed THEN "Stopped" ELSE "ReadConfig"
    /\ inflight' = inflight - 1
    /\ prev_fail' = [valid |-> anyFailed, start |-> run_started_at, wrote |-> wrote]

\* the run is over: the loop goes back to its top                        (301)
EndRun(anyFailed, wrote) ==
    /\ pc' = "ReadConfig"
    /\ inflight' = inflight - 1
    /\ prev_fail' = [valid |-> anyFailed, start |-> run_started_at, wrote |-> wrote]

\* update_all_buckets(..).await returned; up to the next await          (88-195, 274-300)
BucketReturn(res, wOk) ==
    /\ pc = "BucketUpdate"
    /\ LET ui == ~silent_auto_update /\ window
           auto_update_packages == flag_of(get_config_value(TRUE, cfgChain))
       IN
       /\ returned' = res
       /\ IF res.ok
          THEN /\ submitted' = Append(submitted, bucket_log_entry(res.results))
               /\ persist_on_success(wOk)
               /\ failed' = FALSE
               /\ IF auto_update_packages
                  THEN /\ events' = events
                                \o (IF ui THEN bucket_result_events(res.results)
                                          ELSE <<>>)
                                \o (IF ui THEN start_events("package") ELSE <<>>)
                       /\ pc' = "PackageUpdate"
                       /\ UNCHANGED <<inflight, prev_fail>>
                  ELSE /\ events' = events
                                \o (IF ui THEN bucket_result_events(res.results)
                                          ELSE <<>>)
                       /\ EndRun(FALSE, wOk)
          ELSE /\ submitted' = submitted
               /\ persist_on_failure(wOk)
               /\ failed' = TRUE
               /\ events' = events
                        \o (IF ui THEN failure_events("Bucket", res.err) ELSE <<>>)
               /\ EndRun(TRUE, wOk)
    /\ UNCHANGED <<now, cfgInterval, cfgSilent, cfgChain, window, loops, wake,
                   run_started_at, silent_auto_update, cfg_at_start, pkg_returned,
                   decision,
                   iter, ticks, changes, otherVars>>

\* update_all_packages_headless(..).await returned                     (195-271)
PackageReturn(res) ==
    /\ pc = "PackageUpdate"
    /\ pkg_returned' = res
    /\ LET ui == ~silent_auto_update /\ window IN
       IF res.ok
       THEN /\ events' = events
                     \o (IF ui THEN package_result_events(res.results) ELSE <<>>)
            /\ submitted' = Append(submitted, package_log_entry(res.results))
            /\ failed' = FALSE
            /\ EndRun(FALSE, ts_write_ok)
       ELSE /\ events' = events
                     \o (IF ui THEN failure_events("Automatic package", res.err)
                               ELSE <<>>)
            /\ submitted' = Append(submitted, error_log_entry(res.err))
            /\ failed' = TRUE
            /\ EndRun(TRUE, ts_write_ok)
    /\ UNCHANGED <<now, cfgVars, window, loops, wake, run_started_at,
                   silent_auto_update, cfg_at_start, decision, ts_writes, ts_write_ok, returned,
                   iter, ticks, changes, otherVars>>

(***************************************************************************)
(* The environment: the clock, the user changing settings, the window.     *)
(* The clock does not run backwards; a second may pass at any point of the *)
(* loop, and a sleep ends at its deadline or later.                        *)
(***************************************************************************)
Tick ==
    /\ pc # "Idle"
    /\ ticks < MaxTicks
    /\ ticks' = ticks + 1
    /\ now' = now + 1
    /\ UNCHANGED <<cfgVars, window, loops, pc, wake, runVars, decision, iter,
                   changes, otherVars>>

SetInterval(v) ==
    /\ changes < MaxChanges
    /\ v # cfgInterval
    /\ changes' = changes + 1
    /\ cfgInterval' = v
    /\ prev_fail' = [prev_fail EXCEPT !.valid = FALSE]
    /\ UNCHANGED <<now, cfgLastTs, cfgSilent, cfgChain, window, loops, pc, wake,
                   run_started_at, silent_auto_update, cfg_at_start, inflight,
                   events, submitted, decision, ts_writes, ts_write_ok, failed,
                   returned, pkg_returned, iter, ticks, otherVars>>

SetSilent(v) ==
    /\ changes < MaxChanges
    /\ v # cfgSilent
    /\ changes' = changes + 1
    /\ cfgSilent' = v
    /\ UNCHANGED <<now, cfgInterval, cfgLastTs, cfgChain, window, loops, pc, wake,
                   runVars, decision, iter, ticks, otherVars>>

SetChain(v) ==
    /\ changes < MaxChanges
    /\ v # cfgChain
    /\ changes' = changes + 1
    /\ cfgChain' = v
    /\ UNCHANGED <<now, cfgInterval, cfgLastTs, cfgSilent, window, loops, pc, wake,
                   runVars, decision, iter, ticks, otherVars>>

SetWindow(v) ==
    /\ changes < MaxChanges
    /\ v # window
    /\ changes' = changes + 1
    /\ window' = v
    /\ UNCHANGED <<now, cfgVars, loops, pc, wake, runVars, decision, iter, ticks,
                   otherVars>>

(***************************************************************************)
(* What the collaborators may return.                                      *)
(***************************************************************************)
ResultLists(n) ==
    UNION {{[i \in 1..k |-> Result(i, f[i])] : f \in [1..k -> BOOLEAN]} : k \in 0..n}

BucketOutcomes == {Ok(r) : r \in ResultLists(MaxBuckets)} \cup {Err("network")}

PkgLines ==
    {<<"Updated", " git">>, <<"git", " is ", "up to date">>,
     <<"Updated", " but ", "up to date">>, <<"updated", " vim">>}

LineLists(n) == UNION {[1..k -> PkgLines] : k \in 0..n}

PackageOutcomes ==
    {Ok(l) : l \in LineLists(MaxPkgLines)} \cup {Err("scoop failed"), Err("no scoop")}

\* the outcomes explored together with the clock
BucketOutcomesT == {Ok(<<Result(1, TRUE)>>), Err("network")}

PackageOutcomesT == {Ok(<<>>), Err("scoop failed")}

(***************************************************************************)
(* Spec: the scheduler against the clock and a changing interval setting,  *)
(* without a main window.                                                  *)
(***************************************************************************)
InitT ==
    /\ Init
    /\ window = FALSE
    /\ cfgSilent \in {JBool(TRUE), JErr}
    /\ cfgChain \in {JBool(TRUE), JErr}

IterateStep == \E okT \in BOOLEAN : Iterate(okT)

BucketStep == \E res \in BucketOutcomesT, wOk \in BOOLEAN : BucketReturn(res, wOk)

PackageStep == \E res \in PackageOutcomesT : PackageReturn(res)

Next ==
    \/ AppSetup
    \/ IterateStep
    \/ Wake
    \/ BucketStep
    \/ PackageStep
    \/ Tick
    \/ \E v \in IntervalSettings : SetInterval(v)

Spec == InitT /\ [][Next]_vars

(***************************************************************************)
(* OrchSpec: one scheduled run over every collaborator outcome, with the   *)
(* silent, chain and window settings changing under it.                    *)
(***************************************************************************)
InitO ==
    /\ Init
    /\ cfgInterval = JStr(SixHours)
    /\ cfgLastTs \in {JMissing, JNum(StartEpoch - 1)}

NextO ==
    \/ AppSetup
    \/ Iterate(TRUE)
    \/ \E res \in BucketOutcomes : BucketReturn(res, TRUE)
    \/ \E res \in PackageOutcomes : PackageReturn(res)
    \/ \E v \in FlagSettings : SetSilent(v)
    \/ \E v \in FlagSettings : SetChain(v)
    \/ \E v \in BOOLEAN : SetWindow(v)

OrchSpec == InitO /\ [][NextO]_vars

(***************************************************************************)
(* PkgSpec: one scheduled run with chaining on, over every list of detail  *)
(* lines the package collaborator may return.                              *)
(***************************************************************************)
PackageOutcomesL ==
    {Ok(l) : l \in LineLists(MaxLines)} \cup {Err("scoop failed")}

InitPk ==
    /\ Init
    /\ cfgInterval = JStr(SixHours)
    /\ cfgLastTs = JMissing
    /\ cfgChain = JBool(TRUE)

NextPk ==
    \/ AppSetup
    \/ Iterate(TRUE)
    \/ \E res \in BucketOutcomesT : BucketReturn(res, TRUE)
    \/ \E res \in PackageOutcomesL : PackageReturn(res)

PkgSpec == InitPk /\ [][NextPk]_vars

(***************************************************************************)
(* ParseSpec: parse_interval applied to interval strings.                  *)
(***************************************************************************)
Alphabet == {"0", "1", "h", "d", "+", "-"}

ShortStrings == UNION {[1..k -> Alphabet] : k \in 0..MaxLen}

\* 2^64, one more than u64::MAX
TwoPow64 ==
    <<"1", "8", "4", "4", "6", "7", "4", "4", "0", "7", "3", "7", "0", "9", "5", "5", "1", "6", "1", "6">>

ListedStrings ==
    {<<"2", "4", "h">>,
     <<"1", "d">>,
     <<"7", "d">>,
     <<"1", "w">>,
     <<"1", "h">>,
     <<"6", "h">>,
     <<"o", "f", "f">>,
     <<"c", "u", "s", "t", "o", "m", ":">>,
     <<"c", "u", "s", "t", "o", "m", ":", "a", "b", "c">>,
     <<"c", "u", "s", "t", "o", "m", ":", "3", "6", "0", "0">>,
     <<"3", "6", "0", "0">>,
     <<"8", "6", "4", "0", "0">>,
     <<"O", "F", "F">>,
     <<"2", "4", "H">>,
     <<"1", "h", " ">>,
     <<" ", "1", "h">>,
     <<"1", "2", "h">>,
     <<"c", "u", "s", "t", "o", "m">>,
     <<"C", "u", "s", "t", "o", "m", ":", "5">>,
     <<"c", "u", "s", "t", "o", "m", ":", "-", "5">>,
     <<"c", "u", "s", "t", "o", "m", ":", " ", "5">>,
     <<"c", "u", "s", "t", "o", "m", ":", "c", "u", "s", "t", "o", "m", ":", "5">>,
     <<"c", "u", "s", "t", "o", "m", ":", "+", "5">>,
     <<"c", "u", "s", "t", "o", "m", ":", "1", "h">>,
     <<"c", "u", "s", "t", "o", "m", ":", "o", "f", "f">>,
     <<"+", "5">>,
     <<"-", "5">>,
     <<"1", ".", "5">>,
     <<"0", "0", "7">>,
     <<"1", "8", "4", "4", "6", "7", "4", "4", "0", "7", "3", "7", "0", "9", "5", "5", "1", "6", "1", "6">>,
     <<"c", "u", "s", "t", "o", "m", ":", "1", "8", "4", "4", "6", "7", "4", "4", "0", "7", "3", "7", "0", "9", "5", "5", "1", "6", "1", "6">>,
     <<"9", "9", "9", "9", "9", "9", "9", "9", "9", "9", "9", "9", "9", "9", "9", "9", "9", "9", "9", "9">>,
     <<"0", "0", "0", "0", "0", "0", "0", "0", "0", "0", "0", "0", "0", "0", "0", "0", "0", "0", "0", "0", "5">>,
     <<"+", "1", "8", "4", "4", "6", "7", "4", "4", "0", "7", "3", "7", "0", "9", "5", "5", "1", "6", "1", "6">>,
     <<"1", "8", "4", "4", "6", "7", "4", "4", "0", "7", "3", "7", "0", "9", "5", "5", "1", "6", "1", "5", "0">>}

ParseInputs ==
    ShortStrings \cup {CustomPrefix \o x : x \in ShortStrings} \cup ListedStrings

InitP ==
    /\ InitSched
    /\ cfgInterval = JMissing
    /\ cfgLastTs = JMissing
    /\ cfgSilent = JMissing
    /\ cfgChain = JMissing
    /\ window = FALSE
    /\ pin \in ParseInputs
    /\ pres = None
    /\ ppc = "input"
    /\ InitReclaimIdle
    /\ InitCacheIdle

\* let interval_secs_opt = parse_interval(&interval_raw)                    (32)
Parse ==
    /\ ppc = "input"
    /\ pres' = parse_interval(pin)
    /\ ppc' = "parsed"
    /\ UNCHANGED <<schedVars, pin, reclaimVars, cacheVars>>

NextP == Parse

ParseSpec == InitP /\ [][NextP]_vars

(***************************************************************************)
(* Resource reclamation (commands/debug.rs), as built for Windows.         *)
(* A name is the sequence of its pieces, a path the sequence of its names; *)
(* a pattern occurs in a string where its pieces occur in a row.           *)
(***************************************************************************)
\* str::contains
str_contains(s, pat) ==
    \E i \in 0..(Len(s) - Len(pat)) : SubSeq(s, i + 1, i + Len(pat)) = pat

\* str::ends_with
str_ends_with(s, suf) ==
    Len(s) >= Len(suf) /\ SubSeq(s, Len(s) - Len(suf) + 1, Len(s)) = suf

MAX_FILE_RETRIES == 3

FILE_RETRY_DELAY_MS == 100

\* const MAX_RETRIES, RETRY_DELAY_MS of safe_remove_dir                (131-132)
MAX_RETRIES == 3

RETRY_DELAY_MS == 200

TAURI_APP_ID == <<"com.", "rscoop", ".app">>

OLD_APP_DIR == <<"rscoop">>

SETTINGS_FILE == <<"settings", ".dat">>

SIGNALS_FILE == <<"signals", ".dat">>

VERSION_FILE == <<"version", ".txt">>

FACTORY_RESET_MARKER == <<".factory_reset">>

WEBVIEW_CLEANUP_MARKER == <<".cleanup_webview_on_startup">>

BACKUP_EXT == <<".bak">>

LOCKED_FILES == {SETTINGS_FILE, SIGNALS_FILE, VERSION_FILE, FACTORY_RESET_MARKER}

WEBVIEW_LOCKED_DIRS ==
    {<<"shared_proto_db">>, <<"IndexedDB">>, <<"Local Storage">>,
     <<"Session Storage">>, <<"GPUCache">>, <<"Code Cache">>}

\* Path::to_string_lossy: the names joined by the separator
RECURSIVE to_string_lossy(_)
to_string_lossy(path) ==
    IF path = <<>> THEN <<>>
    ELSE IF Len(path) = 1 THEN path[1]
    ELSE path[1] \o <<"\\">> \o to_string_lossy(Tail(path))

\* Path::file_name().and_then(|n| n.to_str()).unwrap_or("")
file_name(path) == IF path = <<>> THEN <<>> ELSE path[Len(path)]

\* Path::join
join(path, name) == Append(path, name)

\* Path::parent
parent(path) == SubSeq(path, 1, Len(path) - 1)

\* is_file_locked_by_current_process                                   (267-281)
is_file_locked_by_current_process(file_path) ==
    LET name == file_name(file_path) IN
    \/ \E locked \in LOCKED_FILES : name = locked
    \/ str_ends_with(name, <<".log">>)
    \/ str_contains(name, OLD_APP_DIR)

\* is_webview_locked_file                                              (284-310)
is_webview_locked_file(file_path) ==
    LET path_str == to_string_lossy(file_path)
        name == file_name(file_path)
        webview_locked_patterns == {<<"LOCK">>, <<"LOG">>, <<"MANIFEST-">>, <<".log">>}
    IN
    \/ /\ str_contains(path_str, <<"EBWebView">>)
       /\ \/ str_contains(path_str, <<"shared_proto_db">>)
          \/ str_contains(path_str, <<"IndexedDB">>)
          \/ str_contains(path_str, <<"Local Storage">>)
          \/ str_contains(path_str, <<"Session Storage">>)
    \/ /\ \E pattern \in webview_locked_patterns : str_contains(name, pattern)
       /\ str_contains(path_str, <<"EBWebView">>)

\* is_webview_locked_dir                                               (313-321)
is_webview_locked_dir(dir_path) ==
    LET path_str == to_string_lossy(dir_path) IN
    /\ str_contains(path_str, <<"EBWebView">>)
    /\ \E pattern \in WEBVIEW_LOCKED_DIRS : str_contains(path_str, pattern)

(***************************************************************************)
(* The disk: the known folders, the two data directories of the            *)
(* application and the embedded browser's data.                            *)
(***************************************************************************)
\* dirs::data_dir(): %APPDATA%
data_dir == << <<"Roaming">> >>

\* dirs::data_local_dir() and dirs::cache_dir(): %LOCALAPPDATA%
data_local_dir == << <<"Local">> >>

cache_dir == data_local_dir

AppDir == join(data_dir, TAURI_APP_ID)

OldDir == join(data_local_dir, OLD_APP_DIR)

LocalAppDir == join(data_local_dir, TAURI_APP_ID)

SettingsPath == join(AppDir, SETTINGS_FILE)

SettingsBakPath == join(AppDir, SETTINGS_FILE \o BACKUP_EXT)

CachePath == join(AppDir, <<"cache", ".json">>)

ResetMarkerPath == join(AppDir, FACTORY_RESET_MARKER)

CleanupMarkerPath == join(AppDir, WEBVIEW_CLEANUP_MARKER)

LogsDir == join(AppDir, <<"logs">>)

LogPath == join(LogsDir, <<"rscoop", ".log">>)

\* a directory of older traces inside the log directory
ArchiveDir == join(LogsDir, <<"archive">>)

ArchivedPath == join(ArchiveDir, <<"trace", ".txt">>)

WebViewDir == join(AppDir, <<"EBWebView">>)

IndexedDBDir == join(WebViewDir, <<"IndexedDB">>)

DbLockPath == join(IndexedDBDir, <<"LOCK">>)

CookiesPath == join(WebViewDir, <<"Cookies">>)

OldSettingsPath == join(OldDir, SETTINGS_FILE)

LocalWebViewDir == join(LocalAppDir, <<"EBWebView">>)

ManifestPath == join(LocalWebViewDir, <<"MANIFEST-", "000001">>)

Files ==
    {SettingsPath, SettingsBakPath, CachePath, ResetMarkerPath, CleanupMarkerPath,
     LogPath, ArchivedPath, DbLockPath, CookiesPath, OldSettingsPath, ManifestPath}

Dirs ==
    {data_dir, data_local_dir, AppDir, OldDir, LocalAppDir, LogsDir, ArchiveDir,
     WebViewDir, IndexedDBDir, LocalWebViewDir}

\* the order in which fs::read_dir yields entries and fs::remove_dir_all walks
\* a tree: children before their directory
DirOrder ==
    <<SettingsPath, SettingsBakPath, CachePath, ResetMarkerPath, CleanupMarkerPath,
      LogPath, ArchivedPath, ArchiveDir, LogsDir, DbLockPath, IndexedDBDir, CookiesPath, WebViewDir, AppDir,
      data_dir, OldSettingsPath, OldDir, ManifestPath, LocalWebViewDir, LocalAppDir,
      data_local_dir>>

RegKeys ==
    <<"HKCU\\Software\\com.rscoop.app", "HKCU\\Software\\Rscoop",
      "HKCU\\Software\\Microsoft\\Windows\\CurrentVersion\\Uninstall\\Rscoop",
      "HKLM\\SOFTWARE\\Microsoft\\Windows\\CurrentVersion\\Uninstall\\Rscoop">>

\* the part of the state the commands work on
World == [fs |-> fs, locks |-> locks, reg |-> reg, calls |-> <<>>]

Call(op, path, ok, ms) == [op |-> op, path |-> path, ok |-> ok, ms |-> ms]

Log(w, c) == [w EXCEPT !.calls = Append(@, c)]

\* the entry of a function of the reclamation engine, with the path it is given
Enter(w, fn, path) == Log(w, Call(fn, path, TRUE, 0))

R(w, ok) == [w |-> w, ok |-> ok]

\* the element of a set of one element: The({e(r) : r \in {x}}) is e(x), with
\* x worked out once, as a Rust `let r = x;` does
The(S) == CHOOSE x \in S : TRUE

\* Path::exists, Path::is_file, Path::is_dir
exists(w, path) == path \in w.fs

is_file(w, path) == path \in w.fs /\ path \in Files

is_dir(w, path) == path \in w.fs /\ path \in Dirs

IsUnder(dir_path, path) ==
    Len(path) >= Len(dir_path) /\ SubSeq(path, 1, Len(dir_path)) = dir_path

\* fs::read_dir(dir).flatten().map(|e| e.path())
read_dir(w, dir_path) ==
    SelectSeq(DirOrder, LAMBDA q : q \in w.fs /\ q # <<>> /\ parent(q) = dir_path)

\* std::thread::sleep
sleep(w, ms) == Log(w, Call("sleep", <<>>, TRUE, ms))

\* a failed attempt on a held file brings the release of the file nearer
after_failed_attempt(w, path) ==
    IF path \in DOMAIN w.locks /\ w.locks[path] \in 1..MaxHold
    THEN [w EXCEPT !.locks[path] = @ - 1]
    ELSE w

\* fs::remove_file: fails on a missing file and on a file that is held open
fs_remove_file(w, path) ==
    IF is_file(w, path) /\ w.locks[path] = 0
    THEN R([Log(w, Call("remove_file", path, TRUE, 0)) EXCEPT !.fs = @ \ {path}], TRUE)
    ELSE R(after_failed_attempt(Log(w, Call("remove_file", path, FALSE, 0)), path),
           FALSE)

\* the rmdir at the end of fs::remove_dir_all: fails on a directory with entries
fs_remove_dir(w, path) ==
    IF is_dir(w, path) /\ read_dir(w, path) = <<>>
    THEN R([Log(w, Call("remove_dir", path, TRUE, 0)) EXCEPT !.fs = @ \ {path}], TRUE)
    ELSE R(Log(w, Call("remove_dir", path, FALSE, 0)), FALSE)

\* fs::remove_dir_all walks the tree and stops at the first error; what it
\* removed before the error stays removed
RECURSIVE remove_in_order(_, _)
remove_in_order(w, todo) ==
    IF todo = <<>> THEN R(w, TRUE)
    ELSE The({IF r.ok THEN remove_in_order(r.w, Tail(todo)) ELSE r :
                 r \in {IF Head(todo) \in Files THEN fs_remove_file(w, Head(todo))
                        ELSE fs_remove_dir(w, Head(todo))}})

\* fs::remove_dir_all; the record of the call follows those of its removals
fs_remove_dir_all(w, dir_path) ==
    The({R(Log(r.w, Call("remove_dir_all", dir_path, r.ok, 0)), r.ok) :
           r \in {IF ~is_dir(w, dir_path)
                  THEN R(Log(w, Call("remove_dir", dir_path, FALSE, 0)), FALSE)
                  ELSE remove_in_order(w, SelectSeq(DirOrder,
                           LAMBDA q : q \in w.fs /\ IsUnder(dir_path, q)))}})

\* fs::create_dir_all
create_dir_all(w, dir_path, ok) ==
    IF ok
    THEN R([Log(w, Call("create_dir_all", dir_path, TRUE, 0))
              EXCEPT !.fs = @ \cup {SubSeq(dir_path, 1, k) : k \in 1..Len(dir_path)}],
           TRUE)
    ELSE R(Log(w, Call("create_dir_all", dir_path, FALSE, 0)), FALSE)

\* fs::write: fails without the directory, or as the disk decides
fs_write(w, path, ok) ==
    IF ok /\ is_dir(w, parent(path))
    THEN R([Log(w, Call("write", path, TRUE, 0)) EXCEPT !.fs = @ \cup {path}], TRUE)
    ELSE R(Log(w, Call("write", path, FALSE, 0)), FALSE)

\* `return true` / `return false` of safe_remove_file and safe_remove_dir
Return(w, path, ok) == R(Log(w, Call("return", path, ok, 0)), ok)

\* the attempts of safe_remove_file from the given one on                (91-120)
RECURSIVE remove_file_attempts(_, _, _)
remove_file_attempts(w, file_path, attempt) ==
    The({IF r.ok THEN Return(r.w, file_path, TRUE)
         ELSE IF attempt = MAX_FILE_RETRIES THEN Return(r.w, file_path, FALSE)
         ELSE remove_file_attempts(sleep(r.w, FILE_RETRY_DELAY_MS), file_path,
                                   attempt + 1) :
            r \in {fs_remove_file(w, file_path)}})

\* safe_remove_file whose loop runs once more than the bound
safe_remove_file_one_more(w, file_path) ==
    IF is_webview_locked_file(file_path)
    THEN Return(Enter(w, "safe_remove_file", file_path), file_path, FALSE)
    ELSE remove_file_attempts(Enter(w, "safe_remove_file", file_path), file_path, 0)

\* safe_remove_file                                                     (84-121)
safe_remove_file(w, file_path) ==
    IF is_webview_locked_file(file_path)
    THEN Return(Enter(w, "safe_remove_file", file_path), file_path, FALSE)
    ELSE remove_file_attempts(Enter(w, "safe_remove_file", file_path), file_path, 1)

RECURSIVE safe_remove_dir(_, _)
RECURSIVE remove_dir_attempts(_, _, _)
RECURSIVE remove_children(_, _)
\* the pass over the entries between two attempts                     (158-168)
remove_children(w, entries) ==
    IF entries = <<>> THEN w
    ELSE LET path == Head(entries)
             w1 == IF is_file(w, path) THEN safe_remove_file(w, path).w
                   ELSE IF is_dir(w, path) THEN safe_remove_dir(w, path).w
                   ELSE w
         IN  remove_children(w1, Tail(entries))

\* safe_remove_dir retrying the whole subtree without a pass over the entries
remove_dir_attempts_without_pass(w, dir_path, attempt) ==
    The({IF r.ok THEN Return(r.w, dir_path, TRUE)
         ELSE IF attempt = MAX_RETRIES THEN Return(r.w, dir_path, FALSE)
         ELSE remove_dir_attempts(sleep(r.w, RETRY_DELAY_MS), dir_path, attempt + 1) :
            r \in {fs_remove_dir_all(w, dir_path)}})

\* the attempts of safe_remove_dir from the given one on              (134-173)
remove_dir_attempts(w, dir_path, attempt) ==
    The({IF r.ok THEN Return(r.w, dir_path, TRUE)
         ELSE IF attempt = MAX_RETRIES THEN Return(r.w, dir_path, FALSE)
         ELSE remove_dir_attempts(
                  sleep(IF is_dir(r.w, dir_path)
                        THEN remove_children(r.w, read_dir(r.w, dir_path))
                        ELSE r.w,
                        RETRY_DELAY_MS),
                  dir_path, attempt + 1) :
            r \in {fs_remove_dir_all(w, dir_path)}})

\* safe_remove_dir whose loop runs once more than the bound
safe_remove_dir_one_more(w, dir_path) ==
    IF is_webview_locked_dir(dir_path)
    THEN Return(Enter(w, "safe_remove_dir", dir_path), dir_path, FALSE)
    ELSE remove_dir_attempts(Enter(w, "safe_remove_dir", dir_path), dir_path, 0)

\* safe_remove_dir                                                    (124-175)
safe_remove_dir(w, dir_path) ==
    IF is_webview_locked_dir(dir_path)
    THEN Return(Enter(w, "safe_remove_dir", dir_path), dir_path, FALSE)
    ELSE remove_dir_attempts(Enter(w, "safe_remove_dir", dir_path), dir_path, 1)

Swept(w, total_cleared, failed_files) ==
    [w |-> w, ok |-> TRUE, total_cleared |-> total_cleared,
     failed_files |-> failed_files]

\* the loop of clear_regular_directory over the entries               (242-261)
RECURSIVE clear_entries(_, _, _, _)
\* the loop counting the directories it removes as well
clear_entries_counting_dirs(w, entries, total_cleared, failed_files) ==
    IF entries = <<>> THEN Swept(w, total_cleared, failed_files)
    ELSE LET path == Head(entries) IN
         IF is_file(w, path)
         THEN IF is_file_locked_by_current_process(path)
              THEN clear_entries(w, Tail(entries), total_cleared,
                                 Append(failed_files, path))
              ELSE The({IF r.ok
                        THEN clear_entries(r.w, Tail(entries), total_cleared + 1,
                                           failed_files)
                        ELSE clear_entries(r.w, Tail(entries), total_cleared,
                                           Append(failed_files, path)) :
                           r \in {safe_remove_file(w, path)}})
         ELSE IF is_dir(w, path)
         THEN The({clear_entries(r.w, Tail(entries),
                                 IF r.ok THEN total_cleared + 1 ELSE total_cleared,
                                 IF r.ok THEN failed_files
                                 ELSE Append(failed_files, path)) :
                      r \in {safe_remove_dir(w, path)}})
         ELSE clear_entries(w, Tail(entries), total_cleared, failed_files)

clear_entries(w, entries, total_cleared, failed_files) ==
    IF entries = <<>> THEN Swept(w, total_cleared, failed_files)
    ELSE LET path == Head(entries) IN
         IF is_file(w, path)
         THEN IF is_file_locked_by_current_process(path)
              THEN clear_entries(w, Tail(entries), total_cleared,
                                 Append(failed_files, path))
              ELSE The({IF r.ok
                        THEN clear_entries(r.w, Tail(entries), total_cleared + 1,
                                           failed_files)
                        ELSE clear_entries(r.w, Tail(entries), total_cleared,
                                           Append(failed_files, path)) :
                           r \in {safe_remove_file(w, path)}})
         ELSE IF is_dir(w, path)
         THEN The({clear_entries(r.w, Tail(entries), total_cleared,
                                 IF r.ok THEN failed_files
                                 ELSE Append(failed_files, path)) :
                      r \in {safe_remove_dir(w, path)}})
         ELSE clear_entries(w, Tail(entries), total_cleared, failed_files)

\* clear_regular_directory                                            (228-264)
clear_regular_directory(w, dir_path, total_cleared, failed_files) ==
    clear_entries(w, read_dir(w, dir_path), total_cleared, failed_files)

\* clear_registry_data: every key that can be deleted is deleted, failures
\* are ignored                                                        (325-367)
RECURSIVE delete_keys(_, _, _)
delete_keys(w, keys, denied) ==
    IF keys = <<>> THEN w
    ELSE LET key == Head(keys)
             ok == key \in w.reg /\ key \notin denied
             w1 == Log(w, Call("reg_delete", <<<<key>>>>, ok, 0))
         IN  delete_keys(IF ok THEN [w1 EXCEPT !.reg = @ \ {key}] ELSE w1,
                         Tail(keys), denied)

clear_registry_data(w, denied) ==
    R(delete_keys(Enter(w, "clear_registry_data", <<>>), RegKeys, denied), TRUE)

\* clear_application_data                                             (179-225)
clear_application_data(w, denied) ==
    LET w0 == Enter(w, "clear_application_data", <<>>) IN
    The({Swept(clear_registry_data(s2.w, denied).w, s2.total_cleared,
               s2.failed_files) :
            s2 \in {The({IF dirs.local /\ is_dir(s1.w, OldDir)
                         THEN clear_regular_directory(s1.w, OldDir, s1.total_cleared,
                                                      s1.failed_files)
                         ELSE s1 :
                            s1 \in {IF dirs.data /\ is_dir(w0, AppDir)
                                    THEN clear_regular_directory(w0, AppDir, 0, <<>>)
                                    ELSE Swept(w0, 0, <<>>)}})}})

\* the loop of clear_store_data over the store files                  (466-478)
RECURSIVE clear_store_files(_, _, _, _)
\* the loop without the test that the store file is there
clear_store_files_unchecked(w, store_files, cleared_count, failed_files) ==
    IF store_files = <<>> THEN Swept(w, cleared_count, failed_files)
    ELSE LET store_file == Head(store_files) IN
         The({IF r.ok
              THEN clear_store_files(r.w, Tail(store_files), cleared_count + 1,
                                     failed_files)
              ELSE clear_store_files(r.w, Tail(store_files), cleared_count,
                                     Append(failed_files, store_file)) :
                 r \in {safe_remove_file(w, store_file)}})

clear_store_files(w, store_files, cleared_count, failed_files) ==
    IF store_files = <<>> THEN Swept(w, cleared_count, failed_files)
    ELSE LET store_file == Head(store_files) IN
         IF exists(w, store_file) /\ is_file(w, store_file)
         THEN The({IF r.ok
                   THEN clear_store_files(r.w, Tail(store_files), cleared_count + 1,
                                          failed_files)
                   ELSE clear_store_files(r.w, Tail(store_files), cleared_count,
                                          Append(failed_files, store_file)) :
                      r \in {safe_remove_file(w, store_file)}})
         ELSE clear_store_files(w, Tail(store_files), cleared_count, failed_files)

\* clear_store_data                                                   (428-494)
clear_store_data(w) ==
    LET store_files_to_clear ==
            <<SETTINGS_FILE, SIGNALS_FILE, VERSION_FILE, SETTINGS_FILE \o BACKUP_EXT,
              SIGNALS_FILE \o BACKUP_EXT>>
        in_dir(d) == [i \in 1..Len(store_files_to_clear) |->
                         join(d, store_files_to_clear[i])]
        store_files == (IF dirs.data THEN in_dir(AppDir) ELSE <<>>)
                       \o (IF dirs.local THEN in_dir(OldDir) ELSE <<>>)
    IN  clear_store_files(Enter(w, "clear_store_data", <<>>), store_files, 0, <<>>)

\* what creating a marker file may meet
MarkerOutcomes == {"ok", "no_dir", "no_write"}

\* create_factory_reset_marker                                        (384-410)
create_factory_reset_marker(w, mk) ==
    LET w0 == Enter(w, "create_factory_reset_marker", <<>>) IN
    IF ~dirs.data
    THEN [w |-> w0, ok |-> FALSE, err |-> "Could not determine app data directory"]
    ELSE LET d == create_dir_all(w0, parent(ResetMarkerPath), mk # "no_dir") IN
         IF ~d.ok
         THEN [w |-> d.w, ok |-> FALSE, err |-> "Failed to create directory for marker"]
         ELSE LET f == fs_write(d.w, ResetMarkerPath, mk # "no_write") IN
              IF f.ok THEN [w |-> f.w, ok |-> TRUE, err |-> ""]
              ELSE [w |-> f.w, ok |-> FALSE,
                    err |-> "Failed to create factory reset marker"]

\* schedule_webview_cleanup returning what its write returned
schedule_webview_cleanup_checked(w, mk) ==
    LET w0 == Enter(w, "schedule_webview_cleanup", <<>>) IN
    IF ~dirs.data THEN R(w0, TRUE)
    ELSE fs_write(create_dir_all(w0, parent(CleanupMarkerPath), mk # "no_dir").w,
                  CleanupMarkerPath, mk # "no_write")

\* schedule_webview_cleanup: both results are dropped (let _ =)       (703-718)
schedule_webview_cleanup(w, mk) ==
    LET w0 == Enter(w, "schedule_webview_cleanup", <<>>) IN
    IF ~dirs.data THEN R(w0, TRUE)
    ELSE R(fs_write(create_dir_all(w0, parent(CleanupMarkerPath), mk # "no_dir").w,
                    CleanupMarkerPath, mk # "no_write").w,
           TRUE)

\* the loop of aggressive_webview_cleanup over the directories        (771-800)
RECURSIVE remove_webview_dirs(_, _)
remove_webview_dirs(w, webview_dirs) ==
    IF webview_dirs = <<>> THEN w
    ELSE IF exists(w, Head(webview_dirs))
         THEN remove_webview_dirs(fs_remove_dir_all(sleep(w, 1000), Head(webview_dirs)).w,
                                  Tail(webview_dirs))
         ELSE remove_webview_dirs(w, Tail(webview_dirs))

\* aggressive_webview_cleanup                                         (762-803)
aggressive_webview_cleanup(w) ==
    LET webview_dirs ==
            (IF dirs.data THEN <<join(join(data_dir, TAURI_APP_ID), <<"EBWebView">>)>>
             ELSE <<>>)
            \o (IF dirs.local
                THEN <<join(join(data_local_dir, TAURI_APP_ID), <<"EBWebView">>),
                       join(join(cache_dir, TAURI_APP_ID), <<"EBWebView">>)>>
                ELSE <<>>)
    IN  R(remove_webview_dirs(Enter(w, "aggressive_webview_cleanup", <<>>), webview_dirs),
          TRUE)

\* perform_scheduled_webview_cleanup that leaves the marker where it is
perform_scheduled_webview_cleanup_keeping_marker(w) ==
    LET w0 == Enter(w, "perform_scheduled_webview_cleanup", <<>>) IN
    IF dirs.data /\ exists(w0, CleanupMarkerPath)
    THEN aggressive_webview_cleanup(sleep(w0, 2000))
    ELSE R(w0, TRUE)

\* perform_scheduled_webview_cleanup                                  (722-741)
perform_scheduled_webview_cleanup(w) ==
    LET w0 == Enter(w, "perform_scheduled_webview_cleanup", <<>>) IN
    IF dirs.data /\ exists(w0, CleanupMarkerPath)
    THEN aggressive_webview_cleanup(
             sleep(fs_remove_file(w0, CleanupMarkerPath).w, 2000))
    ELSE R(w0, TRUE)

\* taskkill /F /IM msedgewebview2.exe: when it kills the embedded browser, the
\* files the browser held are released                                (748-756)
taskkill(w, killed) ==
    LET w1 == Log(w, Call("taskkill", <<>>, killed, 0)) IN
    IF killed
    THEN [w1 EXCEPT !.locks =
              [q \in DOMAIN @ |->
                  IF str_contains(to_string_lossy(q), <<"EBWebView">>) THEN 0 ELSE @[q]]]
    ELSE w1

\* force_clear_webview_cache                                          (745-759)
force_clear_webview_cache(w, killed) ==
    aggressive_webview_cleanup(
        sleep(taskkill(Enter(w, "force_clear_webview_cache", <<>>), killed), 2000))

\* final_cleanup_on_exit                                              (672-700)
RECURSIVE remove_final_files(_, _)
remove_final_files(w, files) ==
    IF files = <<>> THEN w
    ELSE IF exists(w, Head(files))
         THEN remove_final_files(safe_remove_file(w, Head(files)).w, Tail(files))
         ELSE remove_final_files(w, Tail(files))

final_cleanup_on_exit(w, mk) ==
    LET final_cleanup_files ==
            (IF dirs.data
             THEN <<join(AppDir, SETTINGS_FILE), join(AppDir, SIGNALS_FILE)>>
             ELSE <<>>)
            \o (IF dirs.local
                THEN <<join(OldDir, SETTINGS_FILE), join(OldDir, SIGNALS_FILE)>>
                ELSE <<>>)
        w0 == sleep(Enter(w, "final_cleanup_on_exit", <<>>), 1000)
    IN  schedule_webview_cleanup(remove_final_files(w0, final_cleanup_files), mk)

\* check_factory_reset_marker: Ok(true) iff the marker was there      (371-381)
check_factory_reset_marker(w) ==
    LET w0 == Enter(w, "check_factory_reset_marker", <<>>) IN
    IF dirs.data /\ exists(w0, ResetMarkerPath)
    THEN [w |-> fs_remove_file(w0, ResetMarkerPath).w, ok |-> TRUE, value |-> TRUE]
    ELSE [w |-> w0, ok |-> TRUE, value |-> FALSE]

\* factory_reset: each step returns before the next starts; `?` leaves at the
\* first Err                                                          (414-424)
factory_reset_store_first(w, denied, mk1, mk2) ==
    The({The({The({IF ~c.ok THEN c
                   ELSE [w |-> schedule_webview_cleanup(c.w, mk2).w,
                         ok |-> TRUE, err |-> ""] :
                      c \in {create_factory_reset_marker(a.w, mk1)}}) :
                a \in {clear_application_data(b.w, denied)}}) :
            b \in {clear_store_data(Enter(w, "factory_reset", <<>>))}})

factory_reset(w, denied, mk1, mk2) ==
    The({IF ~a.ok THEN [w |-> a.w, ok |-> FALSE, err |-> ""]
         ELSE The({IF ~b.ok THEN [w |-> b.w, ok |-> FALSE, err |-> ""]
                   ELSE The({IF ~c.ok THEN c
                             ELSE The({[w |-> d.w, ok |-> d.ok, err |-> ""] :
                                          d \in {schedule_webview_cleanup(c.w, mk2)}}) :
                                c \in {create_factory_reset_marker(b.w, mk1)}}) :
                      b \in {clear_store_data(a.w)}}) :
            a \in {clear_application_data(Enter(w, "factory_reset", <<>>), denied)}})

(***************************************************************************)
(* The commands as the frontend (or the setup and exit hooks) invokes them.*)
(***************************************************************************)
Returned(ok, err, value, total_cleared, failed_files) ==
    [ok |-> ok, err |-> err, value |-> value, total_cleared |-> total_cleared,
     failed_files |-> failed_files]

\* the command named name ran on the disk and left the world w
Ran(name, w, r) ==
    /\ ops < MaxOps
    /\ ops' = ops + 1
    /\ cmd' = name
    /\ fs' = w.fs
    /\ locks' = w.locks
    /\ reg' = w.reg
    /\ calls' = w.calls
    /\ ret' = r
    /\ UNCHANGED <<dirs, schedVars, parseVars, cacheVars>>

ClearApplicationData(denied) ==
    \E r \in {clear_application_data(World, denied)} :
    Ran("clear_application_data", r.w,
        Returned(r.ok, "", FALSE, r.total_cleared, r.failed_files))

ClearStoreData ==
    \E r \in {clear_store_data(World)} :
    Ran("clear_store_data", r.w,
        Returned(r.ok, "", FALSE, r.total_cleared, r.failed_files))

FactoryReset(denied, mk1, mk2) ==
    \E r \in {factory_reset(World, denied, mk1, mk2)} :
    Ran("factory_reset", r.w, Returned(r.ok, r.err, FALSE, 0, <<>>))

CheckFactoryResetMarker ==
    \E r \in {check_factory_reset_marker(World)} :
    Ran("check_factory_reset_marker", r.w, Returned(r.ok, "", r.value, 0, <<>>))

FinalCleanupOnExit(mk) ==
    \E r \in {final_cleanup_on_exit(World, mk)} :
    Ran("final_cleanup_on_exit", r.w, Returned(r.ok, "", FALSE, 0, <<>>))

PerformScheduledWebviewCleanup ==
    \E r \in {perform_scheduled_webview_cleanup(World)} :
    Ran("perform_scheduled_webview_cleanup", r.w, Returned(r.ok, "", FALSE, 0, <<>>))

ForceClearWebviewCache(killed) ==
    \E r \in {force_clear_webview_cache(World, killed)} :
    Ran("force_clear_webview_cache", r.w, Returned(r.ok, "", FALSE, 0, <<>>))

(***************************************************************************)
(* ReclaimSpec: the commands run one after another on a disk some of whose *)
(* files are held open.                                                    *)
(***************************************************************************)
\* the files some process may hold open
Holdable == {CachePath, LogPath, DbLockPath, CleanupMarkerPath}

\* no file held, or one file held for 1.. MaxHold attempts or for good
LockSettings ==
    {[q \in Files |-> 0]}
    \cup {[q \in Files |-> IF q = h THEN n ELSE 0] :
            h \in Holdable, n \in 1..(MaxHold + 1)}

\* the disk of an installed application, with or without a scheduled cleanup
DiskSettings ==
    {(Files \cup Dirs) \ {ResetMarkerPath, CleanupMarkerPath, ArchiveDir, ArchivedPath},
     (Files \cup Dirs) \ {ResetMarkerPath, ArchiveDir, ArchivedPath}}

\* HKLM keys cannot be deleted without elevation
DeniedSettings == {{}, {RegKeys[4]}}

InitSchedIdle ==
    /\ InitSched
    /\ cfgInterval = JMissing
    /\ cfgLastTs = JMissing
    /\ cfgSilent = JMissing
    /\ cfgChain = JMissing
    /\ window = FALSE

InitR ==
    /\ InitSchedIdle
    /\ InitParseIdle
    /\ fs \in DiskSettings
    /\ locks \in LockSettings
    /\ reg = {RegKeys[i] : i \in 1..Len(RegKeys)}
    /\ dirs \in [data : BOOLEAN, local : BOOLEAN]
    /\ dirs.data \/ dirs.local
    /\ InitCacheIdle
    /\ cmd = "none"
    /\ calls = <<>>
    /\ ret = NoReturn
    /\ ops = 0

NextR ==
    \/ \E denied \in DeniedSettings : ClearApplicationData(denied)
    \/ ClearStoreData
    \/ \E denied \in DeniedSettings, mk1 \in MarkerOutcomes, mk2 \in MarkerOutcomes :
          /\ mk1 # "ok" => mk2 = "ok" /\ denied = {}
          /\ FactoryReset(denied, mk1, mk2)
    \/ CheckFactoryResetMarker
    \/ \E mk \in MarkerOutcomes : FinalCleanupOnExit(mk)
    \/ PerformScheduledWebviewCleanup
    \/ \E killed \in BOOLEAN : ForceClearWebviewCache(killed)

ReclaimSpec == InitR /\ [][NextR]_vars

(***************************************************************************)
(* DeleteSpec: the two delete operations by themselves, on a tree any of   *)
(* whose files may be held open for some attempts or for good.             *)
(***************************************************************************)
\* the files of the trees handed to the delete operations
TreeFiles == {LogPath, ArchivedPath, CookiesPath, DbLockPath}

\* the directories handed to safe_remove_dir
TreeDirs == {LogsDir, ArchiveDir, WebViewDir, IndexedDBDir}

\* each of these files free, held for 1..MaxHold failed attempts, or held for
\* good
TreeHoldable == {LogPath, ArchivedPath, CookiesPath}

TreeLockSettings ==
    {[q \in Files |-> IF q \in TreeHoldable THEN h[q] ELSE 0] :
        h \in [TreeHoldable -> 0..(MaxHold + 1)]}

\* the application data directory with its logs and its embedded browser
\* data, with or without the archived traces
TreeSettings ==
    {{data_dir, AppDir, LogsDir, LogPath, WebViewDir, IndexedDBDir, DbLockPath,
      CookiesPath} \cup extra :
        extra \in {{}, {ArchiveDir}, {ArchiveDir, ArchivedPath}}}

SafeRemoveFile(file_path) ==
    \E r \in {safe_remove_file(World, file_path)} :
    Ran("safe_remove_file", r.w, Returned(r.ok, "", r.ok, 0, <<>>))

SafeRemoveDir(dir_path) ==
    \E r \in {safe_remove_dir(World, dir_path)} :
    Ran("safe_remove_dir", r.w, Returned(r.ok, "", r.ok, 0, <<>>))

InitD ==
    /\ InitSchedIdle
    /\ InitParseIdle
    /\ InitCacheIdle
    /\ fs \in TreeSettings
    /\ locks \in TreeLockSettings
    /\ reg = {}
    /\ dirs = [data |-> TRUE, local |-> TRUE]
    /\ cmd = "none"
    /\ calls = <<>>
    /\ ret = NoReturn
    /\ ops = 0

NextD ==
    \/ \E file_path \in TreeFiles : SafeRemoveFile(file_path)
    \/ \E dir_path \in TreeDirs : SafeRemoveDir(dir_path)

DeleteSpec == InitD /\ [][NextD]_vars

(***************************************************************************)
(* The Installed-Package Cache and the package operations that read or     *)
(* invalidate it (commands/debug.rs get_debug_info, commands/uninstall.rs, *)
(* commands/doctor/cleanup.rs).  Each command runs on a task of its own;   *)
(* an await is a point where another task may run.  Messages are sequences *)
(* of pieces, a shell command the sequence of its words.                   *)
(***************************************************************************)
Package(name, is_versioned_install) ==
    [name |-> name, is_versioned_install |-> is_versioned_install]

\* the directory listings the disk may hold
Inventories ==
    {<<>>,
     <<Package("7zip", FALSE)>>,
     <<Package("nodejs", TRUE)>>,
     <<Package("7zip", FALSE), Package("nodejs", TRUE)>>,
     <<Package("7zip", FALSE), Package("nodejs", TRUE), Package("git", FALSE)>>}

\* the fingerprint: a hash of the listing, one value per listing
fingerprint_of(packages) == <<"fp">> \o [i \in 1..Len(packages) |-> packages[i].name]

\* the snapshot the cache subsystem stores after a scan
Snapshot(packages) ==
    [packages |-> packages, fingerprint |-> fingerprint_of(packages)]

\* a mutex that hands out a guard whoever holds one
lock_always_available(g) == TRUE

\* state.installed_packages.lock().await completes when no guard is out
lock_available(g) == g = {}

\* get_debug_info: cache_info                                  (debug.rs:520-536)
cache_info(slot) ==
    IF slot.some
    THEN [cached_count |-> Len(slot.val.packages),
          fingerprint |-> Some(slot.val.fingerprint)]
    ELSE [cached_count |-> 0, fingerprint |-> None]

\* a Result handled without `?`: the function goes on whatever it holds
returns_early_never(res) == FALSE

\* the `?` on a Result: Err leaves the function with that Err
returns_early(res) == ~res.ok

\* cleanup.rs:58, 133
inventory_error(e) == Err(<<"Failed to retrieve installed packages: ">> \o e)

\* a run_cleanup_command that reports success whatever the shell returned
run_cleanup_command_swallowing(result) == Ok(<<>>)

\* run_cleanup_command returns what run_and_stream_command returned (cleanup.rs:36)
run_cleanup_command(result) == result

RECURSIVE names_where(_, _)
\* .iter().filter(|pkg| pkg.is_versioned_install == v).map(|pkg| pkg.name.clone())
names_where(packages, v) ==
    IF packages = <<>> THEN <<>>
    ELSE (IF Head(packages).is_versioned_install = v THEN <<Head(packages).name>>
          ELSE <<>>) \o names_where(Tail(packages), v)

NoCommand == <<>>

\* cleanup_all_apps naming every installed package
cleanup_all_apps_command_naming_all(installed_packages_l) ==
    IF Len(names_where(installed_packages_l, TRUE)) > 0
    THEN <<"scoop", "cleanup">>
         \o [i \in 1..Len(installed_packages_l) |-> installed_packages_l[i].name]
    ELSE <<"scoop", "cleanup", "--all">>

\* cleanup_all_apps: the command it runs, if any                (cleanup.rs:62-98)
cleanup_all_apps_command(installed_packages_l) ==
    LET versioned_count == Len(names_where(installed_packages_l, TRUE))
        regular_packages == names_where(installed_packages_l, FALSE)
    IN  IF versioned_count > 0
        THEN IF regular_packages = <<>> THEN NoCommand
             ELSE <<"scoop", "cleanup">> \o regular_packages
        ELSE <<"scoop", "cleanup", "--all">>

\* cleanup_outdated_cache: the command it runs, if any        (cleanup.rs:137-154)
cleanup_outdated_cache_command(installed_packages_l) ==
    LET safe_packages == names_where(installed_packages_l, FALSE)
    IN  IF safe_packages = <<>> THEN NoCommand
        ELSE <<"scoop", "cleanup">> \o safe_packages \o <<"--cache">>

\* where the task of a command starts
FirstPc(t) ==
    CASE t = "get_debug_info" -> "lock"
      [] t \in {"uninstall_package", "clear_package_cache"} -> "execute"
      [] OTHER -> "inventory"

\* the frontend invokes a command
Invoke(t, package_name) ==
    /\ task[t].pc = "idle"
    /\ ncalls < MaxCalls
    /\ ncalls' = ncalls + 1
    /\ task' = [task EXCEPT ![t] = [IdleTask EXCEPT !.pc = FirstPc(t),
                                                   !.package_name = package_name]]
    /\ UNCHANGED <<installed_packages, guards, inventory, issued, schedVars,
                   parseVars, reclaimVars>>

\* a task moves, the cache and the disk staying as they are
Moves(t, new) ==
    /\ task' = [task EXCEPT ![t] = new]
    /\ UNCHANGED <<ncalls, schedVars, parseVars, reclaimVars>>

Returns(t, res) == [task[t] EXCEPT !.pc = "idle", !.done = TRUE, !.ret = res]

\* let cache_guard = state.installed_packages.lock().await;     (debug.rs:519)
GetDebugInfoLock ==
    LET t == "get_debug_info" IN
    /\ task[t].pc = "lock"
    /\ lock_available(guards)
    /\ guards' = guards \cup {t}
    /\ Moves(t, [task[t] EXCEPT !.pc = "guarded"])
    /\ UNCHANGED <<installed_packages, inventory, issued>>

\* let cache_info = if let Some(cache) = cache_guard.as_ref()   (debug.rs:520-536)
GetDebugInfoRead ==
    LET t == "get_debug_info" IN
    /\ task[t].pc = "guarded"
    /\ Moves(t, [task[t] EXCEPT !.pc = "read", !.got = cache_info(installed_packages)])
    /\ UNCHANGED <<installed_packages, guards, inventory, issued>>

\* drop(cache_guard)                                             (debug.rs:537)
GetDebugInfoDrop ==
    LET t == "get_debug_info" IN
    /\ task[t].pc = "read"
    /\ guards' = guards \ {t}
    /\ Moves(t, [task[t] EXCEPT !.pc = "dropped"])
    /\ UNCHANGED <<installed_packages, inventory, issued>>

\* Ok(debug_result)                                          (debug.rs:539-553)
GetDebugInfoReturn ==
    LET t == "get_debug_info" IN
    /\ task[t].pc = "dropped"
    /\ Moves(t, Returns(t, Ok(task[t].got)))
    /\ UNCHANGED <<installed_packages, guards, inventory, issued>>

RECURSIVE without(_, _)
\* the listing after scoop uninstalled the package
without(packages, name) ==
    IF packages = <<>> THEN <<>>
    ELSE (IF Head(packages).name = name THEN <<>> ELSE <<Head(packages)>>)
         \o without(Tail(packages), name)

\* an uninstall that goes from the operation straight to the auto-cleanup
UninstallExecute_skipping_invalidation(res) ==
    LET t == "uninstall_package" IN
    /\ task[t].pc = "execute"
    /\ IF returns_early(res)
       THEN /\ Moves(t, [Returns(t, res) EXCEPT !.called = TRUE, !.op = res,
                             !.steps = Append(@, "execute_package_operation")])
            /\ UNCHANGED inventory
       ELSE /\ Moves(t, [task[t] EXCEPT !.pc = "auto_cleanup", !.called = TRUE,
                             !.op = res,
                             !.steps = Append(@, "execute_package_operation")])
            /\ inventory' = without(inventory, task[t].package_name)
    /\ UNCHANGED <<installed_packages, guards, issued>>

\* execute_package_operation(.., ScoopOp::Uninstall, ..).await?  (uninstall.rs:26-32)
UninstallExecute(res) ==
    LET t == "uninstall_package" IN
    /\ task[t].pc = "execute"
    /\ IF returns_early(res)
       THEN /\ Moves(t, [Returns(t, res) EXCEPT !.called = TRUE, !.op = res,
                             !.steps = Append(@, "execute_package_operation")])
            /\ UNCHANGED inventory
       ELSE /\ Moves(t, [task[t] EXCEPT !.pc = "manifest", !.called = TRUE,
                             !.op = res,
                             !.steps = Append(@, "execute_package_operation")])
            /\ inventory' = without(inventory, task[t].package_name)
    /\ UNCHANGED <<installed_packages, guards, issued>>

\* invalidate_manifest_cache().await;                          (uninstall.rs:33)
InvalidateManifest ==
    LET t == "uninstall_package" IN
    /\ task[t].pc = "manifest"
    /\ Moves(t, [task[t] EXCEPT !.pc = "invalidate",
                                !.steps = Append(@, "invalidate_manifest_cache")])
    /\ UNCHANGED <<installed_packages, guards, inventory, issued>>

\* invalidate_installed_cache(state.clone()).await takes the lock  (uninstall.rs:34)
InvalidateLock ==
    LET t == "uninstall_package" IN
    /\ task[t].pc = "invalidate"
    /\ lock_available(guards)
    /\ guards' = guards \cup {t}
    /\ Moves(t, [task[t] EXCEPT !.pc = "invalidating"])
    /\ UNCHANGED <<installed_packages, inventory, issued>>

\* ... clears the slot and lets the guard go
InvalidateClear ==
    LET t == "uninstall_package" IN
    /\ task[t].pc = "invalidating"
    /\ installed_packages' = None
    /\ guards' = guards \ {t}
    /\ Moves(t, [task[t] EXCEPT !.pc = "auto_cleanup",
                                !.steps = Append(@, "invalidate_installed_cache")])
    /\ UNCHANGED <<inventory, issued>>

\* execute_package_operation(.., ScoopOp::ClearCache, ..).await? (uninstall.rs:59-65)
ClearCacheExecute(res) ==
    LET t == "clear_package_cache" IN
    /\ task[t].pc = "execute"
    /\ Moves(t, IF returns_early(res)
                THEN [Returns(t, res) EXCEPT !.called = TRUE, !.op = res,
                         !.steps = Append(@, "execute_package_operation")]
                ELSE [task[t] EXCEPT !.pc = "auto_cleanup", !.called = TRUE,
                         !.op = res,
                         !.steps = Append(@, "execute_package_operation")])
    /\ UNCHANGED <<installed_packages, guards, inventory, issued>>

\* trigger_auto_cleanup(app, state) is called             (uninstall.rs:37, 68)
AutoCleanupStart(t) ==
    /\ task[t].pc = "auto_cleanup"
    /\ Moves(t, [task[t] EXCEPT !.pc = "cleaning",
                                !.steps = Append(@, "trigger_auto_cleanup")])
    /\ UNCHANGED <<installed_packages, guards, inventory, issued>>

\* ... .await; Ok(())                                  (uninstall.rs:37-39, 68-70)
AutoCleanupReturn(t) ==
    /\ task[t].pc = "cleaning"
    /\ Moves(t, Returns(t, Ok(<<>>)))
    /\ UNCHANGED <<installed_packages, guards, inventory, issued>>

\* get_installed_packages_full(app, state.clone()).await takes the lock
\*                                                           (cleanup.rs:49, 124)
InventoryLock(t) ==
    /\ task[t].pc = "inventory"
    /\ lock_available(guards)
    /\ guards' = guards \cup {t}
    /\ Moves(t, [task[t] EXCEPT !.pc = "scanning"])
    /\ UNCHANGED <<installed_packages, inventory, issued>>

\* ... answers from the slot, or scans the disk and fills the slot, and lets
\* the guard go; the command returns Err if the scan failed  (cleanup.rs:51-60)
InventoryResult(t, scanned) ==
    /\ task[t].pc = "scanning"
    /\ guards' = guards \ {t}
    /\ IF installed_packages.some
       THEN /\ Moves(t, [task[t] EXCEPT !.pc = "command",
                                        !.got = installed_packages.val.packages])
            /\ UNCHANGED installed_packages
       ELSE IF scanned
       THEN /\ Moves(t, [task[t] EXCEPT !.pc = "command", !.got = inventory])
            /\ installed_packages' = Some(Snapshot(inventory))
       ELSE /\ Moves(t, [Returns(t, inventory_error(<<"scan failed">>))
                            EXCEPT !.query = Err(<<"scan failed">>)])
            /\ UNCHANGED installed_packages
    /\ UNCHANGED <<inventory, issued>>

command_of(t, packages) ==
    IF t = "cleanup_all_apps" THEN cleanup_all_apps_command(packages)
    ELSE cleanup_outdated_cache_command(packages)

\* the command is built and run, or there is nothing to clean
\*                                                  (cleanup.rs:62-98, 137-154)
RunCleanup(t, result) ==
    /\ task[t].pc = "command"
    /\ IF command_of(t, task[t].got) = NoCommand
       THEN /\ Moves(t, Returns(t, Ok(<<>>)))
            /\ UNCHANGED issued
       ELSE /\ Moves(t, [Returns(t, run_cleanup_command(result))
                            EXCEPT !.called = TRUE, !.op = result])
            /\ issued' = Append(issued, [by |-> t, command |-> command_of(t, task[t].got),
                                         installed |-> task[t].got])
    /\ UNCHANGED <<installed_packages, guards, inventory>>

\* what the package manager or the shell may return
OpOutcomes == {Ok(<<>>), Err(<<"scoop failed">>)}

InitC ==
    /\ InitSchedIdle
    /\ InitParseIdle
    /\ InitReclaimIdle
    /\ inventory \in Inventories
    /\ installed_packages \in {None, Some(Snapshot(inventory))}
    /\ guards = {}
    /\ task = [t \in Commands |-> IdleTask]
    /\ issued = <<>>
    /\ ncalls = 0

NextC ==
    \/ Invoke("get_debug_info", "")
    \/ \E t \in {"uninstall_package", "clear_package_cache"},
          package_name \in {"7zip", "nodejs"} : Invoke(t, package_name)
    \/ \E t \in {"cleanup_all_apps", "cleanup_outdated_cache"} : Invoke(t, "")
    \/ GetDebugInfoLock
    \/ GetDebugInfoRead
    \/ GetDebugInfoDrop
    \/ GetDebugInfoReturn
    \/ \E res \in OpOutcomes : UninstallExecute(res)
    \/ InvalidateManifest
    \/ InvalidateLock
    \/ InvalidateClear
    \/ \E res \in OpOutcomes : ClearCacheExecute(res)
    \/ \E t \in {"uninstall_package", "clear_package_cache"} : AutoCleanupStart(t)
    \/ \E t \in {"uninstall_package", "clear_package_cache"} : AutoCleanupReturn(t)
    \/ \E t \in {"cleanup_all_apps", "cleanup_outdated_cache"} : InventoryLock(t)
    \/ \E t \in {"cleanup_all_apps", "cleanup_outdated_cache"},
          scanned \in BOOLEAN : InventoryResult(t, scanned)
    \/ \E t \in {"cleanup_all_apps", "cleanup_outdated_cache"},
          result \in OpOutcomes : RunCleanup(t, result)

CacheSpec == InitC /\ [][NextC]_vars

(***************************************************************************)
(* Properties of the interval parser.                                      *)
(***************************************************************************)
IsDigitString(s) == s # <<>> /\ \A i \in 1..Len(s) : s[i] \in Digits

Unsigned(s) == IF s # <<>> /\ Head(s) = "+" THEN Tail(s) ELSE s

\* the decimal value of a digit string, from its last digit
RECURSIVE DecVal(_)
DecVal(ds) ==
    IF ds = <<>> THEN 0
    ELSE DecVal(SubSeq(ds, 1, Len(ds) - 1)) * 10 + DigitVal(ds[Len(ds)])

\* the number a digit string denotes is at most 2^64 - 1
FitsU64(ds) ==
    LET sig == StripZeros(ds) IN
    \/ Len(sig) < Len(U64MaxDigits)
    \/ Len(sig) = Len(U64MaxDigits) /\ ~DigitsGreater(sig, U64MaxDigits)

HasCustomPrefix(s) == Len(s) >= 7 /\ SubSeq(s, 1, 7) = CustomPrefix

AfterPrefix(s) == SubSeq(s, 8, Len(s))

TableTokens ==
    {<<"1", "h">>, <<"6", "h">>, <<"2", "4", "h">>, <<"1", "d">>, <<"7", "d">>,
     <<"1", "w">>}

TableValue(s) ==
    CASE s = <<"1", "h">> -> 3600
      [] s = <<"6", "h">> -> 21600
      [] s \in {<<"2", "4", "h">>, <<"1", "d">>} -> 86400
      [] s \in {<<"7", "d">>, <<"1", "w">>} -> 604800

\* the number part of an input: what follows "custom:", or the whole input
NumberPart(s) == IF HasCustomPrefix(s) THEN AfterPrefix(s) ELSE s

\* C1 as stated: a table token yields its seconds, "custom:<n>" and a bare
\* numeric string (digits, with or without a leading '+') yield the number
\* written, whatever its size, and every other string yields no interval.
C1_ParseTotal_AsStated ==
    ppc = "parsed" =>
        IF pin \in TableTokens THEN pres = Some(TableValue(pin))
        ELSE IF IsDigitString(Unsigned(NumberPart(pin)))
             THEN /\ pres.some
                  /\ Len(NumberPart(pin)) <= 9
                        => pres.val = DecVal(Unsigned(NumberPart(pin)))
             ELSE pres = None

\* C1 (amended): the parser is total.  A table token yields its seconds;
\* "custom:<n>" and a bare number yield n when n is an optional '+' followed by
\* ASCII digits and its value fits an unsigned 64-bit integer; every other
\* string, a number above 2^64 - 1 included, yields no interval.
C1_ParseTotal ==
    ppc = "parsed" =>
        IF pin \in TableTokens THEN pres = Some(TableValue(pin))
        ELSE IF /\ IsDigitString(Unsigned(NumberPart(pin)))
                /\ FitsU64(Unsigned(NumberPart(pin)))
             THEN pres = Some(DecVal(Unsigned(NumberPart(pin))))
             ELSE pres = None

\* a number one above u64::MAX has been parsed, to no interval
C1_Witness == ppc = "parsed" /\ pin = TwoPow64 /\ pres = None

(***************************************************************************)
(* Properties of the scheduler loop.                                       *)
(***************************************************************************)
\* the persisted lastRunEpochSeconds as the iteration read it: 0 when the key
\* is missing, unreadable or not an unsigned number
LastRunRead ==
    IF decision.okT /\ cfgLastTs.t = "num" /\ cfgLastTs.n >= 0 THEN cfgLastTs.n
    ELSE 0

\* the iteration has taken its branch and is at the await that follows it;
\* the settings it read for the branch are still those of the store
AtBranch == pc \in {"Sleep", "BucketUpdate"} /\ decision.branch \in {"due", "notdue"}

\* C2: in an iteration with a configured interval the orchestrator is invoked
\* iff elapsed >= interval, with elapsed = now - lastRunEpochSeconds, and a
\* lastRunEpochSeconds of 0 always due.
C2_InvokedIffDue ==
    AtBranch =>
        LET elapsed == IF LastRunRead = 0 THEN decision.interval_secs
                       ELSE decision.now - LastRunRead
        IN  (pc = "BucketUpdate" /\ inflight = 1) <=> (elapsed >= decision.interval_secs)

\* interval "6h" with lastRun = now - 21700: the orchestrator has been invoked
C2_Witness ==
    /\ pc = "BucketUpdate"
    /\ inflight = 1
    /\ decision.interval_secs = 21600
    /\ decision.okT
    /\ cfgLastTs = JNum(decision.now - 21700)

\* the latest iteration ran the orchestrator and the run is over
RunOver == pc = "ReadConfig" /\ decision.branch = "due"

C5_WrittenOncePerRun ==
    [][ /\ cfgLastTs' # cfgLastTs =>
              pc = "BucketUpdate" /\ ts_writes' = ts_writes + 1
        /\ ts_writes' # ts_writes => pc \in {"ReadConfig", "BucketUpdate"}
        /\ (pc \in {"BucketUpdate", "PackageUpdate"} /\ pc' = "ReadConfig") =>
              ts_writes' = 1
        /\ (pc = "ReadConfig" /\ pc' = "Sleep") =>
              /\ decision'.branch \in {"off", "notdue"}
              /\ cfgLastTs' = cfgLastTs
              /\ ts_writes' = ts_writes
      ]_vars

\* a run whose collaborator failed has ended with its one write made
C5_Witness == RunOver /\ failed /\ ts_writes = 1 /\ cfgLastTs = JNum(run_started_at)

\* C6: at most one scheduler loop exists and at most one orchestrator run is
\* in flight.
C6_NoOverlap == loops <= 1 /\ inflight <= 1 /\ (inflight = 1 <=> pc \in {"BucketUpdate", "PackageUpdate"})

\* a second run is in flight after the first one returned
C6_Witness == inflight = 1 /\ pc = "BucketUpdate" /\ prev_fail.start # 0

\* C7: an iteration that does not run the orchestrator sleeps 30 seconds
\* without an interval and min(interval - elapsed, 3600) seconds when not
\* due, never more than 3600 seconds.
C7_BoundedSleep ==
    /\ decision.branch \in {"off", "notdue"} => pc \in {"Sleep", "ReadConfig"}
    /\ pc = "Sleep" =>
          /\ decision.branch \in {"off", "notdue"}
          /\ wake - decision.now <= 3600
          /\ decision.branch = "off" => wake - decision.now = 30
          /\ decision.branch = "notdue" =>
                LET remaining == decision.interval_secs
                                    - (decision.now - decision.last_ts)
                IN  /\ remaining > 0
                    /\ wake - decision.now =
                          (IF remaining <= 3600 THEN remaining ELSE 3600)

\* a not-due iteration of a long interval sleeps the cap
C7_Witness ==
    /\ pc = "Sleep"
    /\ decision.branch = "notdue"
    /\ decision.interval_secs - (decision.now - decision.last_ts) > 3600
    /\ wake = decision.now + 3600

Unreadable(v) == v.t \in {"err", "missing"}

\* C8: configuration errors are recovered locally: an unreadable, missing or
\* wrongly typed interval behaves as Off, an unreadable silent or chain
\* setting as false, an unreadable last-run timestamp as 0, and the iteration
\* goes on to a branch of the loop.
C8_ConfigErrorsRecovered ==
    [][ /\ (pc = "ReadConfig" /\ iter' # iter) =>
              /\ pc' \in {"Sleep", "BucketUpdate"}
              /\ cfgInterval.t # "str" => decision'.branch = "off" /\ pc' = "Sleep"
              /\ (decision'.branch # "off" /\ (cfgLastTs.t # "num" \/ ~decision'.okT))
                    => decision'.last_ts = 0 /\ pc' = "BucketUpdate"
              /\ (pc' = "BucketUpdate" /\ cfgSilent.t # "bool")
                    => silent_auto_update' = FALSE
        /\ (pc = "BucketUpdate" /\ pc' # pc) =>
              /\ pc' \in {"ReadConfig", "PackageUpdate"}
              /\ cfgChain.t # "bool" => pc' = "ReadConfig"
      ]_vars

\* a run started with the timestamp and the silent setting unreadable, after a
\* sleep taken because the interval was unreadable
C8_Witness ==
    /\ pc = "BucketUpdate"
    /\ iter >= 2
    /\ ~decision.okT
    /\ decision.last_ts = 0
    /\ Unreadable(cfgSilent)
    /\ ~silent_auto_update

\* FairSpec: the scheduler under settings that stay as they are, where every
\* sleep ends and every collaborator call returns (the proviso of C9).
NextF ==
    \/ AppSetup
    \/ IterateStep
    \/ Wake
    \/ BucketStep
    \/ PackageStep
    \/ Tick

FairSpec ==
    /\ InitT
    /\ [][NextF]_vars
    /\ WF_vars(Wake)
    /\ WF_vars(BucketStep)
    /\ WF_vars(PackageStep)

\* LiveSpec: FairSpec with the loop body itself running whenever it can: between
\* the end of a sleep or of a run and the next reading of the configuration
\* the loop waits for nothing (21, 301)
LiveSpec ==
    /\ InitT
    /\ [][NextF]_vars
    /\ WF_vars(IterateStep)
    /\ WF_vars(Wake)
    /\ WF_vars(BucketStep)
    /\ WF_vars(PackageStep)

\* C9: the loop has no terminal state: from a sleep and from a collaborator
\* call, whatever the call returns, it comes back to reading the
\* configuration.
C9_ReturnsToReadConfig ==
    (pc \in {"Sleep", "BucketUpdate", "PackageUpdate"}) ~> (pc = "ReadConfig")

\* the package collaborator failed and the loop is reading the configuration
\* again
C9_Witness ==
    /\ pc = "ReadConfig"
    /\ failed
    /\ returned.ok
    /\ iter < MaxIter

(***************************************************************************)
(* Properties of the bucket stage.                                         *)
(***************************************************************************)
\* the results update_all_buckets returned to the run, once it has returned Ok
BucketResults == returned.results

Succeeded(results) == {i \in 1..Len(results) : results[i].success}

BucketStageLogged == returned.ok /\ pc # "BucketUpdate" /\ submitted # <<>>

\* C10: the bucket log entry has operationResult "success" iff all results
\* succeeded, "partial" iff at least one but not all did, "failed" otherwise;
\* successCount and totalCount count the succeeded and all results; details
\* holds one line per result, in result order.
C10_BucketLogEntry ==
    BucketStageLogged =>
        LET e == submitted[1]
            r == BucketResults
            k == Cardinality(Succeeded(r))
        IN  /\ e.operation_type = "bucket"
            /\ e.operation_result \in {"success", "partial", "failed"}
            /\ e.operation_result = "success" <=> k = Len(r)
            /\ e.operation_result = "partial" <=> (k >= 1 /\ k < Len(r))
            /\ e.success_count = k
            /\ e.total_count = Len(r)
            /\ Len(e.details) = Len(r)
            /\ \A i \in 1..Len(r) :
                  /\ r[i].bucket_name = e.details[i][2]
                  /\ r[i].success <=> e.details[i][1] = "(check) Updated bucket: "
                  /\ ~r[i].success <=>
                        /\ e.details[i][1] = "(cross) Failed to update "
                        /\ Len(e.details[i]) = 4
                        /\ e.details[i][4] = r[i].message

\* [(A, true), (B, false, "timeout"), (C, true)] logged as partial, 2 of 3,
\* with one failure line, for B
C10_Witness ==
    /\ BucketStageLogged
    /\ BucketResults = <<Result(1, TRUE), Result(2, FALSE), Result(3, TRUE)>>
    /\ submitted[1].operation_result = "partial"
    /\ submitted[1].success_count = 2
    /\ submitted[1].total_count = 3
    /\ {i \in 1..3 : submitted[1].details[i][1] = "(cross) Failed to update "} = {2}
    /\ submitted[1].details[2] = <<"(cross) Failed to update ", "B", ": ", "timeout">>

(***************************************************************************)
(* Properties of the log entries of both stages.                           *)
(***************************************************************************)
\* the entries of one stage among those the current run submitted
EntriesOf(type) == SelectSeq(submitted, LAMBDA e : e.operation_type = type)

\* C11: every log entry the bucket stage or the package stage submits, in the
\* success branch and in the failure branch, has successCount <= totalCount,
\* whatever the collaborators returned.
C11_SuccessWithinTotal ==
    \A i \in 1..Len(submitted) :
        submitted[i].success_count <= submitted[i].total_count

\* a partial bucket entry followed by the entry of a package stage none of
\* whose lines counts as an update
C11_Witness ==
    /\ Len(submitted) = 2
    /\ submitted[1].success_count < submitted[1].total_count
    /\ pkg_returned.ok
    /\ count_updated(pkg_returned.results) = 0
    /\ submitted[2].success_count = submitted[2].total_count

PackageStageLogged == pkg_returned # Pending /\ Len(submitted) = 2

\* C12: totalCount is never zero in an entry of either stage; a run with no
\* targets (an empty bucket result list, an empty package detail list) is
\* recorded as 1 of 1.
C12_TotalNeverZero ==
    /\ \A i \in 1..Len(submitted) : submitted[i].total_count # 0
    /\ (BucketStageLogged /\ BucketResults = <<>>) =>
          (submitted[1].success_count = 1 /\ submitted[1].total_count = 1)
    /\ (PackageStageLogged /\ pkg_returned.ok /\ pkg_returned.results = <<>>) =>
          (submitted[2].success_count = 1 /\ submitted[2].total_count = 1)

\* update_all_buckets has returned to the current run, with results or an error
BucketStageOver == returned # Pending

\* C13: every execution of the bucket stage, silent or not, whether the
\* collaborator returned results or failed, submits exactly one entry of type
\* "bucket" to the log writer; a collaborator failure is a "failed" entry.
C13_OneBucketEntryPerStage ==
    BucketStageOver =>
        /\ Len(EntriesOf("bucket")) = 1
        /\ ~returned.ok => EntriesOf("bucket")[1].operation_result = "failed"

(***************************************************************************)
(* Properties of the chaining of the two stages.                           *)
(***************************************************************************)
\* update_all_packages_headless has been called by the current run
PackageStageRan == pc = "PackageUpdate" \/ pkg_returned # Pending

\* the chain setting reads as it did when the current run began
ChainSettingKept == flag_of(get_config_value(TRUE, cfgChain)) = cfg_at_start.chain

\* C14: the package stage runs in a scheduled run iff chainPackageUpdate is
\* true, only after the bucket stage has completed, and whatever the bucket
\* stage's outcome was (all succeeded, partial, all failed, collaborator
\* error).
C14_PackageStageIffChained ==
    /\ pc = "PackageUpdate" => BucketStageOver
    /\ (BucketStageOver /\ ChainSettingKept) =>
          (PackageStageRan <=> cfg_at_start.chain)

(***************************************************************************)
(* Properties of the events of a run.                                      *)
(***************************************************************************)
\* C15: with silent mode enabled a scheduled run emits no auto-operation-start,
\* operation-output or operation-finished event, in either stage, in the
\* success and in the failure branch, while each stage that has run still
\* submits its log entry.
C15_SilentRunLogsOnly ==
    silent_auto_update =>
        /\ events = <<>>
        /\ BucketStageOver => Len(EntriesOf("bucket")) = 1
        /\ pkg_returned # Pending => Len(EntriesOf("package")) = 1

\* e is the output line of the bucket result r
IsResultLine(e, r) ==
    /\ e.name = "operation-output"
    /\ e.source = (IF r.success THEN "stdout" ELSE "stderr")
    /\ Len(e.line) >= 2
    /\ e.line[2] = r.bucket_name

\* e is the finished event of a bucket stage that returned the results r
IsBucketFinish(e, r) ==
    /\ e.name = "operation-finished"
    /\ e.success <=> (\A i \in 1..Len(r) : r[i].success)

\* the events ev are, from position k + 1 on, the result lines of r in order
\* and then the finished event
ResultsThenFinish(ev, k, r) ==
    /\ Len(ev) >= k + Len(r) + 1
    /\ \A i \in 1..Len(r) : IsResultLine(ev[k + i], r[i])
    /\ IsBucketFinish(ev[k + Len(r) + 1], r)

HasFinished == \E i \in 1..Len(events) : events[i].name = "operation-finished"

\* C16 as stated: a bucket stage that is not silent (and whose events reach
\* the window) emits one start event, then one output line per result in
\* result order, stdout for a succeeded and stderr for a failed result, then
\* one finished event whose success flag is true iff all results succeeded.
C16_BucketEventOrder_AsStated ==
    (/\ ~silent_auto_update
     /\ BucketStageOver
     /\ returned.ok
     /\ events # <<>>
     /\ HasFinished)
    => /\ events[1].name = "auto-operation-start"
       /\ ResultsThenFinish(events, 1, BucketResults)

\* C16, amended: with the main window present, a bucket stage that is not
\* silent emits, before the collaborator is called, one start event and one
\* stdout output line announcing the start, and, once the collaborator has
\* returned its results, one output line per result in result order (stdout
\* if it succeeded, stderr if not) and then one finished event with success
\* iff all results succeeded; where the window is absent nothing is emitted.
C16_BucketEventOrder ==
    [][ /\ (pc = "ReadConfig" /\ pc' = "BucketUpdate" /\ ~silent_auto_update') =>
              IF window
              THEN /\ Len(events') = 2
                   /\ events'[1].name = "auto-operation-start"
                   /\ events'[2].name = "operation-output"
                   /\ events'[2].source = "stdout"
                   /\ events'[2].line[1] = "Starting automatic "
              ELSE events' = <<>>
        /\ (pc = "BucketUpdate" /\ returned'.ok /\ ~silent_auto_update) =>
              IF window
              THEN /\ ResultsThenFinish(events', Len(events), returned'.results)
                   /\ SubSeq(events', 1, Len(events)) = events
                   /\ pc' # "PackageUpdate" =>
                         Len(events') = Len(events) + Len(returned'.results) + 1
              ELSE events' = events
      ]_vars

\* [(A, true), (B, false), (C, true)] shown in the window: start, the line
\* announcing the start, three result lines, finished with success false
C16_Witness ==
    /\ ~silent_auto_update
    /\ BucketResults = <<Result(1, TRUE), Result(2, FALSE), Result(3, TRUE)>>
    /\ returned.ok
    /\ Len(events) = 6
    /\ events[1].name = "auto-operation-start"
    /\ events[2].line = <<"Starting automatic ", "bucket", " update...">>
    /\ <<events[3].source, events[4].source, events[5].source>>
          = <<"stdout", "stderr", "stdout">>
    /\ events[6].name = "operation-finished"
    /\ ~events[6].success

(***************************************************************************)
(* Properties of the package stage.                                        *)
(***************************************************************************)
PackageFailed == pkg_returned # Pending /\ ~pkg_returned.ok

\* C17: when update_all_packages_headless fails, the package stage records
\* exactly one entry of type "package": result "failed", successCount 0,
\* totalCount 1, and a details list of exactly one line, which carries the
\* error.
C17_PackageFailureEntry ==
    PackageFailed =>
        LET pk == EntriesOf("package") IN
        /\ Len(pk) = 1
        /\ pk[1].operation_result = "failed"
        /\ pk[1].success_count = 0
        /\ pk[1].total_count = 1
        /\ Len(pk[1].details) = 1
        /\ contains(pk[1].details[1], pkg_returned.err)

\* the failure "no scoop" recorded after a bucket stage that was logged
C17_Witness ==
    /\ PackageFailed
    /\ pkg_returned.err = "no scoop"
    /\ Len(submitted) = 2
    /\ submitted[1].operation_type = "bucket"
    /\ submitted[2].details = << <<"Error: ", "no scoop">> >>

PackageSucceeded == pkg_returned # Pending /\ pkg_returned.ok

\* the detail lines that say "Updated" and do not say "up to date"
Qualifying(lines) ==
    {i \in 1..Len(lines) :
        contains(lines[i], "Updated") /\ ~contains(lines[i], "up to date")}

\* C18 as stated: after a successful package collaborator the recorded
\* successCount is the number of qualifying detail lines, for every list of
\* detail lines, also one without a qualifying line (the empty list, which
\* has no target at all, left aside).
C18_PackageSuccessCount_AsStated ==
    (PackageSucceeded /\ pkg_returned.results # <<>>) =>
        EntriesOf("package")[1].success_count
            = Cardinality(Qualifying(pkg_returned.results))

\* C18, amended: the recorded successCount is the number of qualifying detail
\* lines when at least one line qualifies, and 1 when none does (the empty
\* list included).
C18_PackageSuccessCount ==
    PackageSucceeded =>
        LET k == Cardinality(Qualifying(pkg_returned.results)) IN
        /\ Len(EntriesOf("package")) = 1
        /\ EntriesOf("package")[1].success_count = (IF k = 0 THEN 1 ELSE k)

\* two lines, one of them an update, the other "Updated" but "up to date"
C18_Witness ==
    /\ PackageSucceeded
    /\ pkg_returned.results
         = << <<"Updated", " git">>, <<"Updated", " but ", "up to date">> >>
    /\ submitted[2].success_count = 1
    /\ submitted[2].total_count = 2

(***************************************************************************)
(* Properties of a run against settings that change under it.              *)
(***************************************************************************)
\* C19: a configuration change made while a run is in flight does not affect
\* that run: silent mode and chainPackageUpdate have, for the whole run, the
\* values they had when the iteration began (stated for runs whose bucket
\* collaborator returned results).
C19_ConfigFixedForRun ==
    /\ pc \in {"BucketUpdate", "PackageUpdate"} =>
          silent_auto_update = cfg_at_start.silent
    /\ cfg_at_start.silent => events = <<>>
    /\ (BucketStageOver /\ returned.ok) => (PackageStageRan <=> cfg_at_start.chain)

(***************************************************************************)
(* Properties of the reclamation engine.                                   *)
(***************************************************************************)
\* the classification of a path: a store or state file in use, a log file, a
\* name with the legacy marker, a webview-locked file or directory
Locked(path) ==
    \/ /\ path \in Files
       /\ \/ is_file_locked_by_current_process(path)
          \/ is_webview_locked_file(path)
    \/ /\ path \in Dirs
       /\ is_webview_locked_dir(path)

\* the paths the latest command deleted
Deleted ==
    {calls[i].path : i \in {j \in 1..Len(calls) :
                                /\ calls[j].op \in {"remove_file", "remove_dir"}
                                /\ calls[j].ok}}

\* the commands that reclaim: the sweeps, the exit cleanup, the webview
\* cleanups, the factory reset that is made of them
ReclaimCommands ==
    {"clear_application_data", "clear_store_data", "factory_reset",
     "final_cleanup_on_exit", "perform_scheduled_webview_cleanup",
     "force_clear_webview_cache"}

\* C20: a path classified Locked is never deleted by a reclamation operation
\* (file delete, directory delete with the removal of a whole subtree,
\* application-data sweep, store-file sweep, exit cleanup, aggressive webview
\* cleanup), however many attempts are made.
C20_LockedNeverDeleted ==
    cmd \in ReclaimCommands => \A path \in Deleted : ~Locked(path)

(***************************************************************************)
(* The calls of one invocation of safe_remove_file or safe_remove_dir: the *)
(* records between its entry and its return.                               *)
(***************************************************************************)
Entered(fn) == {i \in 1..Len(calls) : calls[i].op = fn}

IsReturnOf(i, j) == calls[j].op = "return" /\ calls[j].path = calls[i].path

ReturnOf(i) ==
    CHOOSE j \in (i + 1)..Len(calls) :
        IsReturnOf(i, j) /\ \A k \in (i + 1)..(j - 1) : ~IsReturnOf(i, k)

Body(i) == SubSeq(calls, i + 1, ReturnOf(i) - 1)

Reclaimable(path) == ~Locked(path)

\* attempt, delay, attempt, ...: the odd records are removal attempts on the
\* file, the even ones the fixed delay
AttemptsAndDelays(seg, path) ==
    \A k \in 1..Len(seg) :
        IF k % 2 = 1 THEN seg[k].op = "remove_file" /\ seg[k].path = path
        ELSE seg[k].op = "sleep" /\ seg[k].ms = FILE_RETRY_DELAY_MS

\* C21: safe_remove_file on a Reclaimable file makes at most three removal
\* attempts; it returns true at the first attempt that succeeds, and false
\* after the third failed attempt, with no further attempt or delay.
C21_BoundedFileRetries ==
    \A i \in Entered("safe_remove_file") :
        Reclaimable(calls[i].path) =>
            LET seg == Body(i)
                attempts == (Len(seg) + 1) \div 2
                result == calls[ReturnOf(i)].ok
            IN  /\ AttemptsAndDelays(seg, calls[i].path)
                /\ Len(seg) % 2 = 1
                /\ attempts \in 1..3
                /\ \A k \in 1..(Len(seg) - 1) : k % 2 = 1 => ~seg[k].ok
                /\ result = seg[Len(seg)].ok
                /\ ~result => attempts = 3

\* a Reclaimable file was held throughout: three failed attempts, two delays,
\* false
C21_Witness ==
    \E i \in Entered("safe_remove_file") :
        /\ Reclaimable(calls[i].path)
        /\ Len(Body(i)) = 5
        /\ ~calls[ReturnOf(i)].ok

\* the directories the application-data sweep goes through, and their entries
SweptDirs ==
    (IF dirs.data THEN {AppDir} ELSE {}) \cup (IF dirs.local THEN {OldDir} ELSE {})

TopEntries == {q \in Files \cup Dirs : q # <<>> /\ parent(q) \in SweptDirs}

Range(f) == {f[i] : i \in DOMAIN f}

\* a delete operation that was handed the path returned false at once
SkippedAtOnce(i) == Body(i) = <<>> /\ ~calls[ReturnOf(i)].ok

\* C22: a Locked target is skipped immediately: the delete operation makes no
\* removal attempt and no delay for it and reports it as not removed, and the
\* sweep records it in its could-not-remove list and still returns Ok.
C22_LockedSkippedAtOnce ==
    /\ \A i \in Entered("safe_remove_file") \cup Entered("safe_remove_dir") :
           Locked(calls[i].path) => SkippedAtOnce(i)
    /\ cmd = "clear_application_data" =>
           /\ ret.ok
           /\ \A q \in TopEntries :
                  Locked(q) /\ q \in fs => q \in Range(ret.failed_files)

\* a step in which the application-data sweep ran
SweepStep == cmd' = "clear_application_data" /\ ops' = ops + 1

\* the entries the sweep finds in the directories it goes through
EntriesFound == TopEntries \cap fs

\* nothing at or under the entry is held open by a process
NotHeld(q) == \A f \in Files \cap fs : IsUnder(q, f) => locks[f] = 0

\* what the step did to the entries: the Reclaimable ones that could be removed
\* are gone, the ones that are left are listed, the result is Ok
SweepOutcome ==
    /\ \A q \in EntriesFound : Reclaimable(q) /\ NotHeld(q) => q \notin fs'
    /\ \A q \in EntriesFound : q \in fs' => q \in Range(ret'.failed_files)
    /\ ret'.ok

\* C23 as stated: the application-data sweep removes every Reclaimable entry it
\* can, its cleared-count equals the number of entries removed, every entry it
\* did not remove is in the skipped list, and it returns Ok whatever was
\* skipped.
C23_SweepAccounts_AsStated ==
    [][SweepStep =>
          /\ SweepOutcome
          /\ ret'.total_cleared = Cardinality(EntriesFound \ fs')]_vars

\* C23: the same, with the cleared-count equal to the number of file entries
\* removed; a removed directory entry is not counted.
C23_SweepAccounts ==
    [][SweepStep =>
          /\ SweepOutcome
          /\ ret'.total_cleared = Cardinality((EntriesFound \cap Files) \ fs')]_vars

\* the scenario: the embedded browser's directory could not be removed and two
\* ordinary files were
C23_Witness ==
    /\ cmd = "clear_application_data"
    /\ ret.ok
    /\ ret.total_cleared = 2
    /\ WebViewDir \in Range(ret.failed_files)
    /\ {SettingsBakPath, CachePath} \cap fs = {}
    /\ LogsDir \notin fs

\* the place in the call log where a step of the latest command starts (0 when
\* it did not start) and the operations recorded from there to the next start
StartOf(fn) == IF Entered(fn) = {} THEN 0 ELSE CHOOSE i \in Entered(fn) : TRUE

OpsBetween(i, j) == {calls[k].op : k \in (i + 1)..(j - 1)}

DeleteOps == {"safe_remove_file", "safe_remove_dir", "remove_file", "remove_dir",
              "remove_dir_all", "sleep", "return"}

\* C24 as stated: factory_reset starts the application-data sweep, then the
\* store-file sweep, then the registry cleanup, then the writing of the
\* factory-reset marker, then the scheduling of the deferred cleanup marker.
C24_ResetOrder_AsStated ==
    cmd = "factory_reset" =>
        /\ 0 < StartOf("clear_application_data")
        /\ StartOf("clear_application_data") < StartOf("clear_store_data")
        /\ StartOf("clear_store_data") < StartOf("clear_registry_data")
        /\ StartOf("clear_registry_data") < StartOf("create_factory_reset_marker")
        /\ StartOf("create_factory_reset_marker") < StartOf("schedule_webview_cleanup")

\* C24: factory_reset runs the application-data sweep, whose last part is the
\* registry cleanup, then the store-file sweep, then the writing of the
\* factory-reset marker and, only when the marker was written, the scheduling
\* of the deferred cleanup marker; each step starts once and everything a step
\* does is done before the next one starts.
C24_ResetOrder ==
    cmd = "factory_reset" =>
        LET a == StartOf("clear_application_data")
            r == StartOf("clear_registry_data")
            b == StartOf("clear_store_data")
            c == StartOf("create_factory_reset_marker")
            d == StartOf("schedule_webview_cleanup")
            end == Len(calls) + 1
        IN  /\ \A fn \in {"clear_application_data", "clear_registry_data",
                          "clear_store_data", "create_factory_reset_marker"} :
                   Cardinality(Entered(fn)) = 1
            /\ 0 < a /\ a < r /\ r < b /\ b < c
            /\ OpsBetween(a, r) \subseteq DeleteOps
            /\ OpsBetween(r, b) = {"reg_delete"}
            /\ Cardinality((r + 1)..(b - 1)) = Len(RegKeys)
            /\ OpsBetween(b, c) \subseteq DeleteOps
            /\ IF ret.ok
               THEN /\ Cardinality(Entered("schedule_webview_cleanup")) = 1
                    /\ c < d
                    /\ OpsBetween(c, d) = {"create_dir_all", "write"}
                    /\ OpsBetween(d, end) \subseteq {"create_dir_all", "write"}
               ELSE /\ d = 0
                    /\ OpsBetween(c, end) \subseteq {"create_dir_all", "write"}

\* a factory reset that went through all its steps, both sweeps having removed
\* something
C24_Witness ==
    /\ cmd = "factory_reset"
    /\ ret.ok
    /\ StartOf("schedule_webview_cleanup") > 0
    /\ \E i \in 1..Len(calls) :
           /\ StartOf("clear_application_data") < i
           /\ i < StartOf("clear_registry_data")
           /\ calls[i].op = "remove_file" /\ calls[i].ok
    /\ \E i \in 1..Len(calls) :
           /\ StartOf("clear_store_data") < i
           /\ i < StartOf("create_factory_reset_marker")
           /\ calls[i].op = "remove_file" /\ calls[i].ok

\* the records of the marker-writing step of the latest factory_reset
MarkerStep ==
    {k \in 1..Len(calls) :
        /\ StartOf("create_factory_reset_marker") < k
        /\ StartOf("schedule_webview_cleanup") = 0
              \/ k < StartOf("schedule_webview_cleanup")}

MarkerWritingFailed == ~dirs.data \/ \E k \in MarkerStep : ~calls[k].ok

\* C25: factory_reset returns an error if and only if writing the
\* factory-reset marker fails, the data directory being undeterminable
\* included; files that were skipped or could not be deleted, registry
\* failures and a failed write of the deferred-cleanup marker never make it
\* fail; when it returns Ok the factory-reset marker file exists.
C25_OnlyMarkerIsFatal ==
    cmd = "factory_reset" =>
        /\ ~ret.ok <=> MarkerWritingFailed
        /\ ret.ok => ResetMarkerPath \in fs

\* a factory reset that returned Ok although a file could not be deleted, a
\* registry key could not be deleted and the deferred-cleanup marker could not
\* be written
C25_Witness ==
    /\ cmd = "factory_reset"
    /\ ret.ok
    /\ \E k \in 1..Len(calls) : calls[k].op = "return" /\ ~calls[k].ok
    /\ \E k \in 1..Len(calls) : calls[k].op = "reg_delete" /\ ~calls[k].ok
    /\ \E k \in 1..Len(calls) :
           /\ k > StartOf("schedule_webview_cleanup")
           /\ StartOf("schedule_webview_cleanup") > 0
           /\ ~calls[k].ok

\* the two sweeps, and a step in which one of them ran
Sweeps == {"clear_application_data", "clear_store_data"}

AnySweepStep == cmd' \in Sweeps /\ ops' = ops + 1

\* the targets the latest command handed to a delete operation
Handed ==
    {calls[i].path : i \in Entered("safe_remove_file") \cup Entered("safe_remove_dir")}

CompleteOrNone(slot) ==
    slot.some => slot.val = Snapshot(slot.val.packages)

\* the tasks between taking the lock and letting the guard go
InCriticalSection ==
    {t \in Commands : task[t].pc \in {"guarded", "read", "invalidating", "scanning"}}

\* C27: access to the Installed-Package Cache slot is mutually exclusive: at
\* most one task, reader or invalidator, holds the lock at any time; the slot
\* a reader looks at is None or a complete snapshot, what get_debug_info read
\* is the slot as it still is while it holds the guard, nobody else changes
\* the slot while a task holds the guard, and a task that has returned holds
\* no guard.
C27_LockSerializes ==
    /\ [](/\ Cardinality(guards) <= 1
          /\ guards = InCriticalSection
          /\ CompleteOrNone(installed_packages)
          /\ task["get_debug_info"].pc = "read"
                => task["get_debug_info"].got = cache_info(installed_packages)
          /\ \A t \in Commands : task[t].pc = "idle" => t \notin guards)
    /\ [][\A t \in Commands :
            t \in guards /\ t \in guards' => installed_packages' = installed_packages]_vars

\* get_debug_info holds the guard on a filled slot while uninstall_package,
\* its operation done, waits for the lock to invalidate
C27_Witness ==
    /\ task["get_debug_info"].pc = "read"
    /\ task["get_debug_info"].got.cached_count > 0
    /\ task["uninstall_package"].pc = "invalidate"
    /\ guards = {"get_debug_info"}


\* the step in which command t returns Ok
ReturnsOk(t) ==
    /\ task[t].pc # "idle"
    /\ task'[t].pc = "idle"
    /\ task'[t].ret.ok

\* C28: every successful mutating package operation, uninstall_package and
\* clear_package_cache included, leaves the Installed-Package Cache slot
\* None when it returns.
C28_MutationInvalidates ==
    [][\A t \in {"uninstall_package", "clear_package_cache"} :
          ReturnsOk(t) => installed_packages' = None]_vars


\* the latest call of command t has returned
HasReturned(t) == task[t].done /\ task[t].pc = "idle"

\* C29: a failure of a manual operation reaches the caller as an error
\* string: uninstall_package and clear_package_cache return the Err of the
\* package-manager operation, cleanup_all_apps and cleanup_outdated_cache
\* return Err naming the failed inventory query or the Err of the cleanup
\* command; a command that returned Ok had no failure under it.
C29_FailuresPropagate ==
    \A t \in Commands \ {"get_debug_info"} :
        HasReturned(t) =>
            /\ ~task[t].query.ok => task[t].ret = inventory_error(task[t].query.err)
            /\ task[t].called /\ ~task[t].op.ok => task[t].ret = task[t].op
            /\ ~task[t].ret.ok => task[t].ret.err # <<>>
            /\ task[t].ret.ok => task[t].query.ok /\ (task[t].called => task[t].op.ok)

\* each kind of failure has happened: the operation under uninstall_package,
\* the inventory query of cleanup_outdated_cache, the command of cleanup_all_apps
C29_Witness ==
    /\ HasReturned("uninstall_package")
    /\ task["uninstall_package"].called /\ ~task["uninstall_package"].op.ok
    /\ HasReturned("cleanup_outdated_cache")
    /\ ~task["cleanup_outdated_cache"].query.ok
    /\ HasReturned("cleanup_all_apps")
    /\ task["cleanup_all_apps"].called /\ ~task["cleanup_all_apps"].op.ok


\* the names of the packages of a listing installed with (v) or without a
\* pinned version, in the listing's order
NamesOf(installed, v) ==
    LET chosen == SelectSeq(installed, LAMBDA p : p.is_versioned_install = v)
    IN  [k \in 1..Len(chosen) |-> chosen[k].name]

\* what each issued command names, command by command
CommandsAreVersionAware ==
    \A i \in 1..Len(issued) :
        LET c == issued[i].command
            versioned == NamesOf(issued[i].installed, TRUE)
            regular == NamesOf(issued[i].installed, FALSE)
        IN  /\ \A k \in 1..Len(versioned) : versioned[k] \notin Range(c)
            /\ issued[i].by = "cleanup_all_apps" =>
                  IF versioned = <<>> THEN c = <<"scoop", "cleanup", "--all">>
                  ELSE c = <<"scoop", "cleanup">> \o regular
            /\ issued[i].by = "cleanup_outdated_cache" =>
                  c = <<"scoop", "cleanup">> \o regular \o <<"--cache">>

\* command t returned having got its listing and run no command
RanNothing(t) == ~task[t].called /\ task[t].ret = Ok(<<>>)

\* C30, as stated: the cleanup commands never name a versioned install, and
\* whenever the listing holds no non-versioned package either command runs
\* no command and returns Ok.
C30_VersionAware_AsStated ==
    /\ CommandsAreVersionAware
    /\ \A t \in {"cleanup_all_apps", "cleanup_outdated_cache"} :
          HasReturned(t) /\ task[t].query.ok /\ NamesOf(task[t].got, FALSE) = <<>>
             => RanNothing(t)

\* C30: the cleanup commands never name a versioned install:
\* cleanup_all_apps issues `scoop cleanup --all` exactly when the listing
\* holds no versioned install (an empty listing included), otherwise a
\* command listing exactly the non-versioned packages; cleanup_outdated_cache
\* lists exactly the non-versioned packages; no command is run and Ok is
\* returned exactly when there is no non-versioned package and, for
\* cleanup_all_apps, at least one versioned install.
C30_VersionAware ==
    /\ CommandsAreVersionAware
    /\ \A t \in {"cleanup_all_apps", "cleanup_outdated_cache"} :
          HasReturned(t) /\ task[t].query.ok =>
             (RanNothing(t) <=>
                 /\ NamesOf(task[t].got, FALSE) = <<>>
                 /\ t = "cleanup_all_apps" => NamesOf(task[t].got, TRUE) # <<>>)

\* cleanup_all_apps has listed the non-versioned packages of a listing that
\* holds a versioned install, and cleanup_outdated_cache has returned without
\* a command on a listing of versioned installs only
C30_Witness ==
    /\ \E i \in 1..Len(issued) :
          /\ issued[i].by = "cleanup_all_apps"
          /\ NamesOf(issued[i].installed, TRUE) # <<>>
          /\ Len(issued[i].command) > 2
    /\ HasReturned("cleanup_outdated_cache")
    /\ task["cleanup_outdated_cache"].query.ok
    /\ task["cleanup_outdated_cache"].got # <<>>
    /\ RanNothing("cleanup_outdated_cache")


(***************************************************************************)
(* Properties of the delete operations by themselves.                      *)
(***************************************************************************)
DeleteEntries == Entered("safe_remove_file") \cup Entered("safe_remove_dir")

\* the records of invocation i that are its own, not those of an invocation
\* made inside it
OwnRecords(i) ==
    {j \in (i + 1)..(ReturnOf(i) - 1) :
        \A m \in DeleteEntries : i < m /\ m < j => ReturnOf(m) < j}

\* the whole-subtree removal attempts of invocation i of safe_remove_dir
WholeAttempts(i) ==
    {k \in OwnRecords(i) : calls[k].op = "remove_dir_all" /\ calls[k].path = calls[i].path}

\* the disk as it was after record k of the log: the disk as it is, with what
\* was removed since
FsAfter(k) ==
    fs \cup {calls[j].path : j \in {n \in (k + 1)..Len(calls) :
                                       /\ calls[n].op \in {"remove_file", "remove_dir"}
                                       /\ calls[n].ok}}

\* the own records of i after attempt k and before the attempt that follows
\* it: one invocation for each entry of the directory (safe_remove_file for a
\* file, safe_remove_dir for a directory), then the fixed delay, then the
\* removals of the next attempt
PassThenRetry(i, k) ==
    LET next == CHOOSE n \in WholeAttempts(i) :
                    n > k /\ \A o \in WholeAttempts(i) : o > k => n <= o
        between == {j \in OwnRecords(i) : k < j /\ j < next}
        invoked == between \cap DeleteEntries
        delays == {j \in between : calls[j].op = "sleep"}
    IN  /\ {calls[m].path : m \in invoked}
              = {q \in FsAfter(k) : q # <<>> /\ parent(q) = calls[i].path}
        /\ \A m, n \in invoked : calls[m].path = calls[n].path => m = n
        /\ \A m \in invoked :
              calls[m].op = (IF calls[m].path \in Files THEN "safe_remove_file"
                             ELSE "safe_remove_dir")
        /\ Cardinality(delays) = 1
        /\ \A d \in delays :
              /\ calls[d].ms = RETRY_DELAY_MS
              /\ \A j \in between :
                    IF calls[j].op \in {"remove_file", "remove_dir"}
                    THEN j > d ELSE j <= d

\* C31: safe_remove_dir on a Reclaimable directory makes at most three
\* whole-subtree removal attempts; all but the last fail, and after each of
\* those it first goes once through every immediate entry (files through
\* safe_remove_file, directories through safe_remove_dir) and only then
\* retries; the last attempt is the last thing it does: it returns that
\* attempt's result, false only after the third, with no pass over the entries.
C31_DirRetriesWithChildPass ==
    \A i \in Entered("safe_remove_dir") :
        ~is_webview_locked_dir(calls[i].path) =>
            LET attempts == WholeAttempts(i)
                final == ReturnOf(i) - 1
            IN  /\ Cardinality(attempts) \in 1..3
                /\ final \in attempts
                /\ calls[ReturnOf(i)].ok = calls[final].ok
                /\ ~calls[final].ok => Cardinality(attempts) = 3
                /\ \A k \in attempts \ {final} : ~calls[k].ok /\ PassThenRetry(i, k)

\* the log directory with an archived trace held for good: three attempts and
\* two passes, each going into the archive directory, which makes its own
\* three attempts and is given up
C31_Witness ==
    \E i \in Entered("safe_remove_dir") :
        /\ calls[i].path = LogsDir
        /\ Cardinality(WholeAttempts(i)) = 3
        /\ ~calls[ReturnOf(i)].ok
        /\ Cardinality({m \in OwnRecords(i) : calls[m].op = "safe_remove_dir"
                                              /\ calls[m].path = ArchiveDir
                                              /\ Cardinality(WholeAttempts(m)) = 3}) = 2
        /\ \E m \in OwnRecords(i) : calls[m].op = "safe_remove_file"
                                    /\ calls[m].path = LogPath


\* the removal attempts made in invocation i, those of the invocations inside
\* it included: the calls of fs::remove_dir_all, and the calls of
\* fs::remove_file that safe_remove_file makes
RemovalAttempts(i) ==
    {k \in (i + 1)..(ReturnOf(i) - 1) :
        \/ calls[k].op = "remove_dir_all"
        \/ /\ calls[k].op = "remove_file"
           /\ \E m \in Entered("safe_remove_file") : k \in OwnRecords(m)}

RECURSIVE AttemptBound(_)
RECURSIVE AttemptBoundOfAll(_)
\* the most removal attempts a tree allows: three for a file; for a directory
\* three on the whole, and what its entries allow in each of the two passes
AttemptBound(path) ==
    IF path \in Files THEN 3
    ELSE 3 + 2 * AttemptBoundOfAll(SelectSeq(DirOrder,
                                             LAMBDA q : q # <<>> /\ parent(q) = path))

AttemptBoundOfAll(paths) ==
    IF paths = <<>> THEN 0
    ELSE AttemptBound(Head(paths)) + AttemptBoundOfAll(Tail(paths))

\* C32: every delete-retry operation terminates: whatever the tree and
\* whichever removals fail, for some attempts or always, every invocation of
\* safe_remove_file and of safe_remove_dir, the recursive ones included,
\* returns, true or false, after at most as many removal attempts as the tree
\* under its path allows, and the command returns with that result.
C32_DeleteRetriesTerminate ==
    /\ \A i \in DeleteEntries :
          /\ \E j \in (i + 1)..Len(calls) : IsReturnOf(i, j)
          /\ Cardinality(RemovalAttempts(i)) <= AttemptBound(calls[i].path)
    /\ cmd \in {"safe_remove_file", "safe_remove_dir"} =>
          /\ calls[1].op = cmd
          /\ ReturnOf(1) = Len(calls)
          /\ ret.value = calls[Len(calls)].ok

\* every file of the log directory held for good: safe_remove_dir makes all
\* the attempts the tree allows and returns false
C32_Witness ==
    /\ cmd = "safe_remove_dir"
    /\ calls[1].path = LogsDir
    /\ ArchivedPath \in fs
    /\ Cardinality(RemovalAttempts(1)) = AttemptBound(LogsDir)
    /\ AttemptBound(LogsDir) = 27
    /\ ~ret.value


(***************************************************************************)
(* The place of the timestamp write in a due iteration.                    *)
(***************************************************************************)
\* C33 as stated: the last-run timestamp is written only after the whole
\* orchestrator run, the package stage included when it is enabled, and
\* before the configuration is read again: no write has been made while a
\* stage is in flight, and one has been made when the run is over.
C33_PersistAfterRun_AsStated ==
    /\ pc \in {"BucketUpdate", "PackageUpdate"} => ts_writes = 0
    /\ RunOver => ts_writes = 1

\* C33: in a due iteration the last-run timestamp is written exactly once, when
\* the bucket stage has completed, with results or with a failure, and before
\* the package stage, when there is one, is started; the write has been made
\* when the configuration is read again.
C33_PersistAfterBucketStage ==
    /\ pc = "BucketUpdate" => ts_writes = 0 /\ ~BucketStageOver
    /\ BucketStageOver => ts_writes = 1
    /\ pc = "PackageUpdate" => BucketStageOver /\ ts_writes = 1
    /\ RunOver => ts_writes = 1 /\ BucketStageOver

\* the package stage is in flight and the timestamp of the run is in the store
C33_Witness ==
    /\ pc = "PackageUpdate"
    /\ ts_writes = 1
    /\ cfgLastTs = JNum(run_started_at)
    /\ pkg_returned = Pending


(***************************************************************************)
(* Liveness of the scheduler under a fixed interval.                       *)
(***************************************************************************)
\* the interval the store holds, and the last-run timestamp it holds
FixedInterval == parse_interval(interval_raw_of(get_config_value(TRUE, cfgInterval)))

StoredTs == last_ts_of(get_config_value(TRUE, cfgLastTs))

\* the clock when the loop next reads the configuration
NextReadAt == IF pc = "Sleep" /\ now < wake THEN wake ELSE now

\* the seconds from then until the stored timestamp is an interval old
SecondsToGo ==
    IF StoredTs = 0 THEN 0
    ELSE saturating_sub(FixedInterval.val, saturating_sub(NextReadAt, StoredTs))

\* the iterations the loop needs to get to a run: one per sleep of at most an
\* hour, and the one that finds the run due; and whether the model lets the
\* loop make them
IterationsToGo == (SecondsToGo + MaxSleepSecs - 1) \div MaxSleepSecs + 1

WithinIterations == iter + IterationsToGo <= MaxIter

\* C34: with the interval fixed at a parseable value, sleeps ending and
\* collaborator calls returning, the scheduler, wherever it is in its loop,
\* at the start, asleep or just after a run, eventually invokes the
\* orchestrator (for as long as the iterations the model allows suffice).
C34_EventuallyRuns ==
    (FixedInterval.some /\ pc \in {"ReadConfig", "Sleep"} /\ WithinIterations)
        ~> (pc = "BucketUpdate")

\* a second run of the same loop: the orchestrator is invoked again after a
\* run whose timestamp was written and a sleep of the whole interval
C34_Witness ==
    /\ pc = "BucketUpdate"
    /\ iter = 3
    /\ StoredTs >= StartEpoch
    /\ run_started_at >= StoredTs + FixedInterval.val
    /\ FixedInterval.val > 0


(***************************************************************************)
(* The pairing of start and finished events in a run.                      *)
(***************************************************************************)
\* the start and finished events of the current run, in order
Brackets ==
    SelectSeq(events, LAMBDA e : e.name \in {"auto-operation-start",
                                             "operation-finished"})

\* the stage an event speaks of
StageOf(e) ==
    IF e.name = "auto-operation-start" THEN e.line[2]
    ELSE IF e.line[1] \in {"Bucket update completed", "Bucket"} THEN "bucket"
    ELSE "package"

\* the run is shown: not silent, the main window there from the start and
\* no setting changed since
Shown == ~silent_auto_update /\ window /\ changes = 0

\* C35: in a run that is not silent, with the main window present, the start
\* and finished events alternate, beginning with a start, and each finished
\* event is of the stage of the start before it; a start is without its
\* finished event only while the collaborator of its stage is being awaited;
\* this in both stages and whether the collaborators return results or fail.
C35_StartFinishedPaired ==
    (Shown /\ decision.branch = "due") =>
        LET b == Brackets IN
        /\ \A k \in 1..Len(b) :
              IF k % 2 = 1 THEN b[k].name = "auto-operation-start"
              ELSE /\ b[k].name = "operation-finished"
                   /\ StageOf(b[k]) = StageOf(b[k - 1])
        /\ pc = "BucketUpdate" => Len(b) = 1 /\ StageOf(b[1]) = "bucket"
        /\ pc = "PackageUpdate" => Len(b) = 3 /\ StageOf(b[3]) = "package"
        /\ pc = "ReadConfig" => Len(b) \in {2, 4}
        /\ PackageStageRan <=> Len(b) >= 3

\* a shown run whose bucket stage gave results and whose package collaborator
\* failed: start, finished, start, finished
C35_Witness ==
    /\ Shown
    /\ RunOver
    /\ returned.ok
    /\ PackageFailed
    /\ Len(Brackets) = 4
    /\ ~Brackets[4].success

(***************************************************************************)
(* Properties of uninstall_package and clear_package_cache.                *)
(***************************************************************************)
MutatingCommands == {"uninstall_package", "clear_package_cache"}

\* the package-manager operation of the task's latest call failed
FailedOperation(t) == task[t].called /\ ~task[t].op.ok

\* the step at which a task learns that its operation failed
OperationFails(t) ==
    /\ task[t].pc = "execute"
    /\ task'[t].called
    /\ ~task'[t].op.ok

\* C36: when the package-manager operation fails, uninstall_package and
\* clear_package_cache return its error and do nothing else: the step that
\* fails is the step that returns, it leaves the Installed-Package Cache, its
\* lock and the disk as they were, and the task has called neither
\* invalidate_manifest_cache nor invalidate_installed_cache nor
\* trigger_auto_cleanup.
C36_FailureHasNoEffect ==
    /\ [](\A t \in MutatingCommands :
             FailedOperation(t) =>
                 /\ HasReturned(t)
                 /\ task[t].ret = task[t].op
                 /\ task[t].steps = <<"execute_package_operation">>)
    /\ [][\A t \in MutatingCommands :
             OperationFails(t) =>
                 /\ task'[t].pc = "idle"
                 /\ UNCHANGED <<installed_packages, guards, inventory, issued>>]_vars

\* both commands have failed while the cache held a snapshot with the package
C36_Witness ==
    /\ \A t \in MutatingCommands : FailedOperation(t) /\ HasReturned(t)
    /\ installed_packages.some
    /\ \E k \in 1..Len(installed_packages.val.packages) :
          installed_packages.val.packages[k].name
              = task["uninstall_package"].package_name

\* the calls of a successful uninstall_package, in order     (uninstall.rs:26-37)
UninstallOrder ==
    <<"execute_package_operation", "invalidate_manifest_cache",
      "invalidate_installed_cache", "trigger_auto_cleanup">>

IsPrefix(s, t) == Len(s) <= Len(t) /\ s = SubSeq(t, 1, Len(s))

\* the Installed-Package Cache holds a snapshot that lists the package
Lists(slot, name) ==
    /\ slot.some
    /\ \E k \in 1..Len(slot.val.packages) : slot.val.packages[k].name = name

\* the uninstall is about to trigger the auto-cleanup, or has triggered it
AtAutoCleanup ==
    task["uninstall_package"].pc \in {"auto_cleanup", "cleaning"}

\* C37: a successful uninstall_package calls, in this order, the
\* package-manager operation, invalidate_manifest_cache,
\* invalidate_installed_cache and trigger_auto_cleanup, and has made all four
\* calls when it returns Ok; the third call empties the Installed-Package
\* Cache, so when the auto-cleanup is triggered and while it runs the cache
\* is empty or holds a snapshot of the disk taken after the uninstall, never
\* one that still lists the uninstalled package.
C37_UninstallOrder ==
    /\ [](IsPrefix(task["uninstall_package"].steps, UninstallOrder))
    /\ [](HasReturned("uninstall_package") /\ task["uninstall_package"].ret.ok
             => task["uninstall_package"].steps = UninstallOrder)
    /\ [](AtAutoCleanup =>
             /\ ~Lists(installed_packages, task["uninstall_package"].package_name)
             /\ installed_packages \in {None, Some(Snapshot(inventory))})
    /\ [][/\ Len(task["uninstall_package"].steps) = 2
           /\ Len(task'["uninstall_package"].steps) = 3
           => installed_packages' = None]_vars

\* the auto-cleanup has been triggered after all three earlier calls, another
\* command having refilled the cache with what is left on the disk
C37_Witness ==
    /\ task["uninstall_package"].pc = "cleaning"
    /\ task["uninstall_package"].steps = UninstallOrder
    /\ installed_packages.some
    /\ installed_packages.val.packages # <<>>

(***************************************************************************)
(* Properties of the deferred cleanup of the embedded browser data.        *)
(***************************************************************************)
\* a step that is a call of perform_scheduled_webview_cleanup
PerformStep == cmd' = "perform_scheduled_webview_cleanup" /\ ops' = ops + 1

\* the command the log is of ran the aggressive cleanup
RanAggressive(log) ==
    \E j \in 1..Len(log) : log[j].op = "aggressive_webview_cleanup"

\* ... after an attempt to remove the marker, with this result
MarkerAttemptFirst(log, ok) ==
    \E i, j \in 1..Len(log) :
        /\ i < j
        /\ log[i] = Call("remove_file", CleanupMarkerPath, ok, 0)
        /\ log[j].op = "aggressive_webview_cleanup"

\* two calls of perform_scheduled_webview_cleanup in a row, the first of which
\* ran the aggressive cleanup
PerformAgain ==
    /\ cmd = "perform_scheduled_webview_cleanup"
    /\ RanAggressive(calls)
    /\ PerformStep

\* C38 as stated: perform_scheduled_webview_cleanup runs the aggressive
\* cleanup only when the marker exists, has removed the marker before the
\* cleanup starts, and returns Ok; so a call right after one that ran the
\* cleanup does not run it again.
C38_ConsumeOnce_AsStated ==
    /\ [][PerformStep =>
             /\ ret'.ok
             /\ RanAggressive(calls') =>
                    /\ CleanupMarkerPath \in fs
                    /\ MarkerAttemptFirst(calls', TRUE)
                    /\ CleanupMarkerPath \notin fs']_vars
    /\ [][PerformAgain => ~RanAggressive(calls')]_vars

\* C38: perform_scheduled_webview_cleanup runs the aggressive cleanup exactly
\* when the data directory is known and the marker exists, attempts to remove
\* the marker before the cleanup starts and goes on whatever the attempt
\* gave, and returns Ok whatever the removals gave.  The marker is gone
\* afterwards exactly when the attempt succeeded: then a call right after it
\* does not run the cleanup again; when the attempt failed the marker is
\* still there and the call right after it runs the cleanup again.
C38_ConsumeOnce ==
    /\ [][PerformStep =>
             /\ ret'.ok
             /\ RanAggressive(calls') <=> (dirs.data /\ CleanupMarkerPath \in fs)
             /\ RanAggressive(calls') =>
                    /\ MarkerAttemptFirst(calls', TRUE)
                           <=> CleanupMarkerPath \notin fs'
                    /\ MarkerAttemptFirst(calls', FALSE)
                           <=> CleanupMarkerPath \in fs'
             /\ ~RanAggressive(calls') => fs' = fs]_vars
    /\ [][PerformAgain =>
             (RanAggressive(calls') <=> MarkerAttemptFirst(calls, FALSE))]_vars

\* the cleanup ran and removed the browser data although the marker, held
\* open until then, could not be removed; the command returned Ok and the
\* marker is there for the next call
C38_Witness ==
    /\ cmd = "perform_scheduled_webview_cleanup"
    /\ ops = 2
    /\ MarkerAttemptFirst(calls, FALSE)
    /\ CleanupMarkerPath \in fs
    /\ locks[CleanupMarkerPath] = 0
    /\ WebViewDir \notin fs
    /\ ret.ok

====
